---- MODULE Spec2Model ----
(***************************************************************************)
(* NoctoProxy: a Telegram bot that hands out MTProto proxy links.          *)
(*                                                                         *)
(* Modelled here:                                                          *)
(*   - app/services/rate_limit.py   InMemoryRateLimiter                    *)
(*   - app/services/proxy_links.py  ProxyStore (the JSON proxy file)       *)
(*   - app/handlers/admin.py        the admin console and its FSM forms    *)
(*                                                                         *)
(* Texts are sequences of one-character strings, so that str.strip(),      *)
(* str.isdigit() and int() are computed and not assumed.  Monotonic time   *)
(* is counted in ticks of 1/TicksPerSec second.                            *)
(***************************************************************************)
EXTENDS Integers, Sequences, FiniteSets, TLC

VARIABLES
    now,          \* time.monotonic(), in ticks
    last_called,  \* InMemoryRateLimiter._last_called: dict user_id -> time
    accepted_at,  \* history: user_id -> time of the user's latest accepted call
    admin_ids,    \* the configured administrators (read once at startup)
    fsm,          \* aiogram FSM storage: user -> [state, data]
    file,         \* the proxy file: [exists, bom, items]
    users,        \* the users table: dict tg_id -> row
    seq,          \* sqlite_sequence of the users table (AUTOINCREMENT)
    tasks,        \* the handler coroutines suspended at an await, and the
                  \* list keyboards waiting for a press
    ev            \* the update handled last, with what it returned

rlVars == <<now, last_called, accepted_at>>
adminVars == <<admin_ids, fsm, file, users, seq, tasks>>
vars ==
    <<now, last_called, accepted_at, admin_ids, fsm, file, users, seq, tasks,
      ev>>

(***************************************************************************)
(* Bounds of the model.                                                    *)
(***************************************************************************)
TicksPerSec == 2
MaxTime == 13
NumUsers == 2
MaxProxies == 2

UserIds == 1..NumUsers

(***************************************************************************)
(* Rate limiter (app/services/rate_limit.py).                              *)
(***************************************************************************)
cooldown_seconds == 3

CooldownTicks == cooldown_seconds * TicksPerSec

\* int(x) of a non-negative float x given in ticks: truncation.
IntOfTicks(t) == t \div TicksPerSec

\* math.ceil of a non-negative amount of ticks, in seconds.
CeilOfTicks(t) == (t + TicksPerSec - 1) \div TicksPerSec

\* Python's None, where a time is expected.
NoTime == 0 - 1

\* self._last_called.get(user_id)
PrevOf(d, u) == IF u \in DOMAIN d THEN d[u] ELSE NoTime

\* A limiter that starts a new dict at every accepted call.
RecordCall_Fresh(d, u, t) == [x \in {u} |-> t]

\* self._last_called[user_id] = now
RecordCall(d, u, t) ==
    [x \in (DOMAIN d) \cup {u} |-> IF x = u THEN t ELSE d[x]]

\* A cooldown test that lets a call through one second early.
CooldownOver_Early(elapsed) == elapsed >= CooldownTicks - TicksPerSec

\* elapsed >= self.cooldown_seconds
CooldownOver(elapsed) == elapsed >= CooldownTicks

\* retry_after = int(self.cooldown_seconds - elapsed) + 1
RetryAfter(elapsed) == IntOfTicks(CooldownTicks - elapsed) + 1

\* A limiter that keeps one time for all users instead of one per user.
AllowedResult_Shared(d, u, t) ==
    LET latest == IF DOMAIN d = {} THEN NoTime
                  ELSE CHOOSE m \in {d[x] : x \in DOMAIN d} :
                           \A x \in DOMAIN d : d[x] <= m
    IN  IF latest = NoTime \/ t - latest >= CooldownTicks
        THEN <<TRUE, 0, RecordCall(d, u, t)>>
        ELSE <<FALSE, IntOfTicks(CooldownTicks - (t - latest)) + 1, d>>

\* InMemoryRateLimiter.allowed: <<ok, retry_after, new _last_called>>
AllowedResult(d, u, t) ==
    IF PrevOf(d, u) = NoTime
    THEN <<TRUE, 0, RecordCall(d, u, t)>>
    ELSE IF CooldownOver(t - PrevOf(d, u))
         THEN <<TRUE, 0, RecordCall(d, u, t)>>
         ELSE <<FALSE, RetryAfter(t - PrevOf(d, u)), d>>

\* One call rate_limiter.allowed(u) at the current monotonic time.
Allowed(u) ==
    LET r == AllowedResult(last_called, u, now) IN
    /\ last_called' = r[3]
    /\ accepted_at' = IF r[1] THEN RecordCall(accepted_at, u, now) ELSE accepted_at
    /\ ev' = [op |-> "allowed", user |-> u, ok |-> r[1], retry_after |-> r[2],
              prev |-> PrevOf(last_called, u),
              prev_ok |-> PrevOf(accepted_at, u)]
    /\ UNCHANGED <<now, adminVars>>

\* The monotonic clock advances between calls.
Tick ==
    /\ now < MaxTime
    /\ now' = now + 1
    /\ ev' = [op |-> "tick"]
    /\ UNCHANGED <<last_called, accepted_at, adminVars>>

(***************************************************************************)
(* Texts: str.strip(), str.isdigit(), int().                               *)
(***************************************************************************)
WhiteSpace == {" ", "\t"}
DecimalDigits == {"0", "1", "2", "3", "4", "5", "6", "7", "8", "9"}
\* Characters str.isdigit() accepts and int() refuses, such as U+00B2.
SuperscriptDigits == {"sup2"}

DigitValue(c) ==
    CASE c = "0" -> 0 [] c = "1" -> 1 [] c = "2" -> 2 [] c = "3" -> 3
      [] c = "4" -> 4 [] c = "5" -> 5 [] c = "6" -> 6 [] c = "7" -> 7
      [] c = "8" -> 8 [] c = "9" -> 9

RECURSIVE LStrip(_)
LStrip(s) ==
    IF s # <<>> /\ Head(s) \in WhiteSpace THEN LStrip(Tail(s)) ELSE s

RECURSIVE RStrip(_)
RStrip(s) ==
    IF s # <<>> /\ s[Len(s)] \in WhiteSpace
    THEN RStrip(SubSeq(s, 1, Len(s) - 1))
    ELSE s

\* (message.text or "").strip()
Strip(s) == RStrip(LStrip(s))

\* str.isdigit(): non-empty, every character a digit.
IsDigit(s) ==
    /\ s # <<>>
    /\ \A i \in 1..Len(s) : s[i] \in DecimalDigits \cup SuperscriptDigits

\* int(s) raises ValueError on a text that passed isdigit() iff it holds a
\* digit that is not a decimal digit.
IntRaises(s) == \E i \in 1..Len(s) : s[i] \notin DecimalDigits

RECURSIVE IntOf(_)
IntOf(s) ==
    IF s = <<>> THEN 0
    ELSE 10 * IntOf(SubSeq(s, 1, Len(s) - 1)) + DigitValue(s[Len(s)])

(***************************************************************************)
(* Python values held in the FSM data dict.                                *)
(***************************************************************************)
PyStr(s) == [k |-> "str", s |-> s]
PyInt(i) == [k |-> "int", i |-> i]
PyBool(b) == [k |-> "bool", b |-> b]

\* dict.get(key), None being reported as the default given
Get(d, key, default) == IF key \in DOMAIN d THEN d[key] ELSE default

\* state.update_data(**upd)
UpdateData(d, upd) ==
    [key \in (DOMAIN d) \cup (DOMAIN upd) |->
        IF key \in DOMAIN upd THEN upd[key] ELSE d[key]]

\* Python truthiness of a value of the data dict ("not chat_id").
Truthy(v) ==
    CASE v.k = "int" -> v.i # 0
      [] v.k = "str" -> v.s # <<>>
      [] v.k = "bool" -> v.b
      [] OTHER -> FALSE

PyNone == [k |-> "none"]

(***************************************************************************)
(* ProxyStore (app/services/proxy_links.py).                               *)
(***************************************************************************)
NoFile == [exists |-> FALSE, bom |-> FALSE, items |-> <<>>]

\* int(item["port"]) of a JSON number or of a JSON string of decimal digits
IntOfJson(v) == IF v.k = "int" THEN v.i ELSE IntOf(v.s)

\* A loader that takes a missing "enabled" for false.
ProxyItemOf_DefaultOff(item) ==
    [name |-> item.name, server |-> item.server,
     port |-> IntOfJson(item.port),
     secret |-> item.secret,
     enabled |-> IF "enabled" \in DOMAIN item THEN Truthy(item.enabled)
                 ELSE FALSE]

\* ProxyItem(name=item["name"], ..., port=int(item["port"]), ...,
\*           enabled=bool(item.get("enabled", True)))
\* An element of the JSON array holds JSON values: the port a number or a
\* string, "enabled" (when present) true, false, null or a number.
ProxyItemOf(item) ==
    [name |-> item.name, server |-> item.server,
     port |-> IntOfJson(item.port),
     secret |-> item.secret,
     enabled |-> IF "enabled" \in DOMAIN item THEN Truthy(item.enabled)
                 ELSE TRUE]

\* ProxyStore.load_all
LoadAll(f) ==
    IF ~f.exists THEN <<>>
    ELSE [i \in 1..Len(f.items) |-> ProxyItemOf(f.items[i])]

\* load_enabled without its filter.
LoadEnabled_Unfiltered(f) == LoadAll(f)

\* ProxyStore.load_enabled
LoadEnabled(f) == SelectSeq(LoadAll(f), LAMBDA p : p.enabled)

\* A serializer that leaves the enabled flag out.
AsDict_NoEnabled(proxy) ==
    [name |-> proxy.name, server |-> proxy.server, port |-> PyInt(proxy.port),
     secret |-> proxy.secret]

\* asdict(proxy): the five fields of the dataclass as JSON values
AsDict(proxy) ==
    [name |-> proxy.name, server |-> proxy.server, port |-> PyInt(proxy.port),
     secret |-> proxy.secret, enabled |-> PyBool(proxy.enabled)]

\* ProxyStore.save_all: the file is rewritten whole, UTF-8 without BOM, every
\* item with its five fields.
SaveAll(proxies) ==
    [exists |-> TRUE, bom |-> FALSE,
     items |-> [i \in 1..Len(proxies) |-> AsDict(proxies[i])]]

(***************************************************************************)
(* Storage (app/services/storage.py): the users table.  A row holds the    *)
(* AUTOINCREMENT id, first_seen, last_seen, username and is_blocked.       *)
(***************************************************************************)
\* utc_now_str(): the wall clock to the second ("%Y-%m-%d %H:%M:%S"), taken
\* to advance with the monotonic clock.
UtcNow == now \div TicksPerSec

\* Storage.touch_user: INSERT ... ON CONFLICT(tg_id) DO UPDATE SET username,
\* full_name.  Returns the table and sqlite_sequence after the statement.
TouchUser(us, sq, tg_id, username, t) ==
    IF tg_id \in DOMAIN us
    THEN [users |-> [us EXCEPT ![tg_id].username = username], seq |-> sq]
    ELSE [users |-> [x \in (DOMAIN us) \cup {tg_id} |->
                        IF x = tg_id
                        THEN [id |-> sq + 1, first_seen |-> t, last_seen |-> t,
                              username |-> username, is_blocked |-> FALSE]
                        ELSE us[x]],
          seq |-> sq + 1]

\* The methods class Storage defines.  The class has no __getattr__, so a
\* call of any other name raises AttributeError at the call ("raised" in
\* the handlers below).
StorageMethods ==
    {"init", "touch_user", "record_share", "set_user_proxy_connected",
     "count_users", "count_active_users_last_hours",
     "count_new_users_last_hours", "count_unique_sharers",
     "count_total_shares", "count_shares_last_hours",
     "get_top_sharers_last_hours", "get_recent_users", "get_users_page",
     "get_user_by_tg_id", "search_users", "set_user_blocked",
     "delete_user_by_tg_id", "get_all_user_ids"}

\* Storage.delete_user_by_tg_id
DeleteUser(us, tg_id) == [x \in (DOMAIN us) \ {tg_id} |-> us[x]]

\* Storage.set_user_blocked
SetUserBlocked(us, tg_id, blocked) ==
    IF tg_id \in DOMAIN us THEN [us EXCEPT ![tg_id].is_blocked = blocked]
    ELSE us

\* Row x comes before row y in ORDER BY first_seen DESC.  SQL leaves the
\* order of rows with equal first_seen to the query plan: by ascending id
\* (a table scan that is then sorted) or by descending id (the index on
\* first_seen walked backwards); asc tells which.
RowBefore(us, x, y, asc) ==
    \/ us[x].first_seen > us[y].first_seen
    \/ /\ us[x].first_seen = us[y].first_seen
       /\ IF asc THEN us[x].id < us[y].id ELSE us[x].id > us[y].id

\* SELECT ... FROM users ORDER BY first_seen DESC: the tg_ids in order.
UsersOrdered(us, asc) ==
    [i \in 1..Cardinality(DOMAIN us) |->
        CHOOSE x \in DOMAIN us :
            Cardinality({y \in DOMAIN us : RowBefore(us, y, x, asc)}) = i - 1]

Max(a, b) == IF a >= b THEN a ELSE b
Min(a, b) == IF a <= b THEN a ELSE b

\* get_users_page counting its pages from 0.
UsersPage_ZeroBased(us, page, page_size, asc) ==
    LET safe_page == Max(1, page)
        safe_page_size == Max(1, page_size)
        offset == safe_page * safe_page_size
        rows == UsersOrdered(us, asc)
    IN  SubSeq(rows, offset + 1, Min(offset + safe_page_size, Len(rows)))

\* Storage.get_users_page: LIMIT safe_page_size OFFSET offset
UsersPage(us, page, page_size, asc) ==
    LET safe_page == Max(1, page)
        safe_page_size == Max(1, page_size)
        offset == (safe_page - 1) * safe_page_size
        rows == UsersOrdered(us, asc)
    IN  SubSeq(rows, offset + 1, Min(offset + safe_page_size, Len(rows)))

\* Storage.get_all_user_ids: SELECT tg_id FROM users, in the order of the
\* table (ascending id).
AllUserIds(us) ==
    [i \in 1..Cardinality(DOMAIN us) |->
        CHOOSE x \in DOMAIN us :
            Cardinality({y \in DOMAIN us : us[y].id < us[x].id}) = i - 1]

(***************************************************************************)
(* FSM contexts (aiogram FSMContext), one per user.                        *)
(***************************************************************************)
StateNone == "None"
AddName == "AddProxyForm:name"
AddServer == "AddProxyForm:server"
AddPort == "AddProxyForm:port"
AddSecret == "AddProxyForm:secret"
BroadcastText == "BroadcastForm:text"
SearchQuery == "UserSearchForm:query"
WriteText == "UserWriteForm:text"

WizardStates == {AddName, AddServer, AddPort, AddSecret}

\* state.clear(): the state becomes None and the data dict empty.
Clear == [state |-> StateNone, data |-> <<>>]

\* state.set_state(st)
SetState(c, st) == [c EXCEPT !.state = st]

\* state.update_data(**upd)
WithData(c, upd) == [c EXCEPT !.data = UpdateData(@, upd)]

\* _save_panel_ref: the chat of a private conversation is the user's own.
SavePanelRef(c, u, m) ==
    WithData(c, [panel_chat_id |-> PyInt(u), panel_message_id |-> PyInt(m)])

\* _edit_panel edits the anchor message iff both references are truthy.
HasPanel(c) ==
    /\ Truthy(Get(c.data, "panel_chat_id", PyNone))
    /\ Truthy(Get(c.data, "panel_message_id", PyNone))

\* An admin check that lets every user through.
is_admin_Everyone(u) == TRUE

\* _is_admin
is_admin(u) == u \in admin_ids

\* The anchor message of an administrator's chat: the one message that
\* carries the console's keyboards.
MsgIds == {1}

\* What is remembered of the update handled last: the handler, the user, the
\* FSM state the user was in and what the handler showed.
Event(op, u, reply) ==
    [op |-> op, user |-> u, was |-> fsm[u].state, reply |-> reply]

\* The same of a callback query, with the action its data names.
CallbackEvent(u, d, reply) ==
    [op |-> "callback", user |-> u, was |-> fsm[u].state, a |-> d.a,
     reply |-> reply]

(***************************************************************************)
(* What the administrator types at each step of the wizard.                *)
(***************************************************************************)
NameTexts == {<<>>, <<" ">>, <<"n">>, <<"\t", "n", " ">>}
ServerTexts == {<<>>, <<" ", "\t">>, <<"s">>, <<" ", "s">>}
SecretTexts == {<<>>, <<"\t">>, <<"k">>, <<"k", " ">>}
PortTexts ==
    {<<>>, <<" ">>, <<"0">>, <<"6", "5", "5", "3", "6">>, <<"a", "b", "c">>,
     <<"1">>, <<"6", "5", "5", "3", "5">>, <<" ", "1", "\t">>, <<"-", "1">>,
     <<"1", " ", "1">>, <<"sup2">>, <<"0", "0", "1">>}

(***************************************************************************)
(* /admin and /cancel (app/handlers/admin.py).                             *)
(***************************************************************************)
cmd_admin(u) ==
    IF ~is_admin(u)
    THEN /\ ev' = Event("cmd_admin", u, "denied")
         /\ UNCHANGED <<rlVars, adminVars>>
    ELSE /\ fsm' = [fsm EXCEPT ![u] = Clear]
         /\ ev' = Event("cmd_admin", u, "menu")
         /\ UNCHANGED <<rlVars, admin_ids, file, users, seq, tasks>>

cancel_admin_state(u) ==
    IF ~is_admin(u)
    THEN /\ ev' = Event("cmd_cancel", u, "ignored")
         /\ UNCHANGED <<rlVars, adminVars>>
    ELSE IF fsm[u].state = StateNone
    THEN /\ ev' = Event("cmd_cancel", u, "no_active_action")
         /\ UNCHANGED <<rlVars, adminVars>>
    ELSE /\ fsm' = [fsm EXCEPT ![u] = Clear]
         /\ ev' = Event("cmd_cancel", u,
                        IF HasPanel(fsm[u]) THEN "panel_menu" ELSE "menu")
         /\ UNCHANGED <<rlVars, admin_ids, file, users, seq, tasks>>

(***************************************************************************)
(* The add-proxy wizard's message handlers.  Each returns                  *)
(* [ctx, file, reply]: the user's FSM context and the proxy file after the *)
(* handler, and what it showed.                                            *)
(***************************************************************************)
Outcome(c, f, reply) == [ctx |-> c, file |-> f, reply |-> reply]

\* add_proxy_name keeping the text as sent, without strip().
NameStep_Raw(c, f, text) ==
    IF text = <<>>
    THEN Outcome(c, f, "name_empty")
    ELSE Outcome(SetState(WithData(c, [name |-> PyStr(text)]), AddServer),
                 f, "prompt_server")

\* add_proxy_name setting the state of the step after next.
NameStep_SkipsServer(c, f, text) ==
    IF Strip(text) = <<>>
    THEN Outcome(c, f, "name_empty")
    ELSE Outcome(SetState(WithData(c, [name |-> PyStr(Strip(text))]), AddPort),
                 f, "prompt_port")

\* add_proxy_name, after the admin check
NameStep(c, f, text) ==
    LET name == Strip(text) IN
    IF name = <<>>
    THEN Outcome(c, f, "name_empty")
    ELSE Outcome(SetState(WithData(c, [name |-> PyStr(name)]), AddServer),
                 f, "prompt_server")

\* add_proxy_server, after the admin check
ServerStep(c, f, text) ==
    LET server == Strip(text) IN
    IF server = <<>>
    THEN Outcome(c, f, "server_empty")
    ELSE Outcome(SetState(WithData(c, [server |-> PyStr(server)]), AddPort),
                 f, "prompt_port")

\* A range test that lets port 0 through.
PortOutOfRange_ZeroOk(port) == port < 0 \/ port > 65535

\* port < 1 or port > 65535
PortOutOfRange(port) == port < 1 \/ port > 65535

\* add_proxy_port, after the admin check.  int() raises ValueError on a
\* digit that is not decimal: the handler ends there.
PortStep(c, f, text) ==
    LET raw_port == Strip(text) IN
    IF ~IsDigit(raw_port)
    THEN Outcome(c, f, "port_not_a_number")
    ELSE IF IntRaises(raw_port)
    THEN Outcome(c, f, "raised")
    ELSE IF PortOutOfRange(IntOf(raw_port))
    THEN Outcome(c, f, "port_out_of_range")
    ELSE Outcome(SetState(WithData(c, [port |-> PyInt(IntOf(raw_port))]),
                          AddSecret),
                 f, "prompt_secret")

\* data["name"], data["server"], int(data["port"]) raise KeyError or
\* ValueError when the data dict does not hold them.
NewProxyRaises(data) ==
    \/ {"name", "server", "port"} \ DOMAIN data # {}
    \/ /\ data["port"].k = "str"
       /\ (data["port"].s = <<>> \/ IntRaises(data["port"].s))
    \/ data["port"].k \notin {"str", "int"}

\* ProxyItem(name=data["name"], server=data["server"],
\*           port=int(data["port"]), secret=secret, enabled=True)
NewProxy(data, secret) ==
    [name |-> data["name"].s, server |-> data["server"].s,
     port |-> IF data["port"].k = "int" THEN data["port"].i
              ELSE IntOf(data["port"].s),
     secret |-> secret, enabled |-> TRUE]

\* add_proxy_secret saving the new proxy alone, without the loaded list.
SecretStep_Overwrite(c, f, text) ==
    IF Strip(text) = <<>>
    THEN Outcome(c, f, "secret_empty")
    ELSE Outcome(Clear, SaveAll(<<NewProxy(c.data, Strip(text))>>),
                 IF HasPanel(c) THEN "panel_added" ELSE "added")

\* add_proxy_secret, after the admin check
SecretStep(c, f, text) ==
    LET secret == Strip(text) IN
    IF secret = <<>>
    THEN Outcome(c, f, "secret_empty")
    ELSE IF NewProxyRaises(c.data)
    THEN Outcome(c, f, "raised")
    ELSE Outcome(Clear,
                 SaveAll(Append(LoadAll(f), NewProxy(c.data, secret))),
                 IF HasPanel(c) THEN "panel_added" ELSE "added")

\* A text message of user u in wizard state st, handled by step.
WizardMessage(u, st, op, text, out) ==
    /\ fsm[u].state = st
    /\ IF ~is_admin(u)
       THEN /\ ev' = Event(op, u, "ignored")
            /\ UNCHANGED <<rlVars, adminVars>>
       ELSE /\ fsm' = [fsm EXCEPT ![u] = out.ctx]
            /\ file' = out.file
            /\ ev' = Event(op, u, out.reply)
            /\ UNCHANGED <<rlVars, admin_ids, users, seq, tasks>>

add_proxy_name(u, text) ==
    WizardMessage(u, AddName, "add_proxy_name", text,
                  NameStep(fsm[u], file, text))

add_proxy_server(u, text) ==
    WizardMessage(u, AddServer, "add_proxy_server", text,
                  ServerStep(fsm[u], file, text))

add_proxy_port(u, text) ==
    WizardMessage(u, AddPort, "add_proxy_port", text,
                  PortStep(fsm[u], file, text))

\* The stored list stays within MaxProxies: a wizard is completed only
\* while there is room.
add_proxy_secret(u, text) ==
    /\ Strip(text) = <<>> \/ Len(LoadAll(file)) < MaxProxies
    /\ WizardMessage(u, AddSecret, "add_proxy_secret", text,
                     SecretStep(fsm[u], file, text))

(***************************************************************************)
(* cb_admin_actions: one operator per branch, each returning               *)
(* [ctx, file, users, reply] for the administrator's context c, the proxy  *)
(* file f and the users table us.                                          *)
(***************************************************************************)
CbOutcome(c, f, us, reply) ==
    [ctx |-> c, file |-> f, users |-> us, reply |-> reply]

\* proxies.pop(idx), idx counted from 0
Pop(proxies, idx) ==
    [i \in 1..(Len(proxies) - 1) |->
        IF i <= idx THEN proxies[i] ELSE proxies[i + 1]]

\* admin:menu resetting the state and keeping the data dict.
CbMenu_KeepsData(c, f, us) ==
    CbOutcome(SetState(c, StateNone), f, us, "menu")

\* admin:menu
CbMenu(c, f, us) == CbOutcome(Clear, f, us, "menu")

\* admin:list without state.clear().
CbList_NoClear(c, f, us) ==
    CbOutcome(c, f, us, IF LoadAll(f) = <<>> THEN "list_empty" ELSE "list")

\* admin:list
CbList(c, f, us) ==
    CbOutcome(Clear, f, us, IF LoadAll(f) = <<>> THEN "list_empty" ELSE "list")

\* admin:toggle switching the proxy off whatever its flag was.
CbToggle_SwitchesOff(c, f, us, idx) ==
    LET proxies == LoadAll(f) IN
    IF idx < 0 \/ idx >= Len(proxies)
    THEN CbOutcome(c, f, us, "bad_index")
    ELSE CbOutcome(c,
                   SaveAll([proxies EXCEPT ![idx + 1].enabled = FALSE]),
                   us, "toggled")

\* admin:toggle:<idx>
CbToggle(c, f, us, idx) ==
    LET proxies == LoadAll(f) IN
    IF idx < 0 \/ idx >= Len(proxies)
    THEN CbOutcome(c, f, us, "bad_index")
    ELSE CbOutcome(c,
                   SaveAll([proxies EXCEPT ![idx + 1].enabled = ~@]),
                   us, "toggled")

\* admin:delete:<idx>
\* admin:delete removing the last proxy of the list: proxies.pop().
CbDelete_PopsLast(c, f, us, idx) ==
    LET proxies == LoadAll(f) IN
    IF idx < 0 \/ idx >= Len(proxies)
    THEN CbOutcome(c, f, us, "bad_index")
    ELSE CbOutcome(c, SaveAll(Pop(proxies, Len(proxies) - 1)), us,
                   IF Pop(proxies, idx) = <<>> THEN "deleted_list_empty"
                   ELSE "deleted")

CbDelete(c, f, us, idx) ==
    LET proxies == LoadAll(f) IN
    IF idx < 0 \/ idx >= Len(proxies)
    THEN CbOutcome(c, f, us, "bad_index")
    ELSE CbOutcome(c, SaveAll(Pop(proxies, idx)), us,
                   IF Pop(proxies, idx) = <<>> THEN "deleted_list_empty"
                   ELSE "deleted")

\* admin:add
CbAdd(c, f, us, u, m) ==
    CbOutcome(
        SavePanelRef(
            WithData(SetState(Clear, AddName),
                     [name |-> PyStr(<<>>), server |-> PyStr(<<>>),
                      port |-> PyStr(<<>>)]),
            u, m),
        f, us, "prompt_name")

\* admin:add:back returning to the first step from every step.
CbAddBack_ToName(c, f, us) ==
    IF c.state \in {AddServer, AddPort, AddSecret}
    THEN CbOutcome(SetState(c, AddName), f, us, "prompt_name")
    ELSE CbOutcome(c, f, us, "back_unavailable")

\* admin:add:back
CbAddBack(c, f, us) ==
    IF c.state = AddServer
    THEN CbOutcome(SetState(c, AddName), f, us, "prompt_name")
    ELSE IF c.state = AddPort
    THEN CbOutcome(SetState(c, AddServer), f, us, "prompt_server")
    ELSE IF c.state = AddSecret
    THEN CbOutcome(SetState(c, AddPort), f, us, "prompt_port")
    ELSE CbOutcome(c, f, us, "back_unavailable")

\* admin:broadcast
CbBroadcast(c, f, us, u, m) ==
    CbOutcome(SavePanelRef(SetState(Clear, BroadcastText), u, m),
              f, us, "prompt_broadcast")

\* admin:stats
CbStats(c, f, us) ==
    CbOutcome(Clear, f, us,
              IF "count_users_with_referrer" \in StorageMethods
              THEN "stats" ELSE "raised")

\* admin:users, admin:users:noop, admin:users:<page>
CbUsers(c, f, us, noop) ==
    CbOutcome(Clear, f, us,
              IF noop THEN "answered"
              ELSE IF "count_users_with_referrer" \in StorageMethods
              THEN "users_page"
              ELSE "raised")

\* admin:users_search
CbUsersSearch(c, f, us, u, m) ==
    CbOutcome(SavePanelRef(SetState(Clear, SearchQuery), u, m),
              f, us, "prompt_search")

\* admin:user:<tg_id>:<page>:<source>
CbUser(c, f, us, tg_id) ==
    CbOutcome(Clear, f, us,
              IF tg_id \notin DOMAIN us THEN "user_not_found"
              ELSE IF "count_invited_by" \notin StorageMethods THEN "raised"
              ELSE "profile")

\* admin:uw:<tg_id>:<page>:<source>
CbUw(c, f, us, u, m, tg_id) ==
    IF tg_id \notin DOMAIN us
    THEN CbOutcome(c, f, us, "user_not_found")
    ELSE CbOutcome(
             WithData(SavePanelRef(SetState(Clear, WriteText), u, m),
                      [write_target_tg_id |-> PyInt(tg_id),
                       write_back_page |-> PyInt(1),
                       write_source |-> PyStr(<<"l">>)]),
             f, us, "prompt_write")

\* admin:ur:<tg_id>:<page>:<source>
CbUr(c, f, us, tg_id) ==
    CbOutcome(c, f, us,
              IF {"get_referred_users", "count_invited_by"}
                     \subseteq StorageMethods
              THEN "referrals" ELSE "raised")

\* admin:ub:<tg_id>:<page>:<source>
CbUb(c, f, us, tg_id) ==
    IF tg_id \notin DOMAIN us
    THEN CbOutcome(c, f, us, "user_not_found")
    ELSE CbOutcome(c, f, SetUserBlocked(us, tg_id, ~us[tg_id].is_blocked),
                   IF "count_invited_by" \notin StorageMethods THEN "raised"
                   ELSE "profile")

\* admin:ud:<tg_id>:<page>:<source>
CbUd(c, f, us, tg_id, source) ==
    IF tg_id \notin DOMAIN us
    THEN CbOutcome(c, f, us, "user_not_found")
    ELSE CbOutcome(c, f, DeleteUser(us, tg_id),
                   IF source = "s" THEN "user_deleted"
                   ELSE IF "count_users_with_referrer" \in StorageMethods
                   THEN "user_deleted"
                   ELSE "raised")

\* any other admin:* data
CbOther(c, f, us) == CbOutcome(c, f, us, "answered")

\* The users whose profile keyboards were rendered: those with a row in the
\* table at the start (the row may have been deleted since).
TargetIds == {NumUsers}

\* The callback data the bot's keyboards carry.  An index is one of a list
\* rendered earlier, so it may lie past the end of today's list.  The source
\* of a profile keyboard is the users list ("l") or a search result ("s").
Indices == 0..MaxProxies

CallbackData ==
    {[a |-> x] : x \in {"menu", "list", "add", "add:back", "broadcast",
                        "stats", "users_search", "other"}}
    \cup {[a |-> x, idx |-> i] : x \in {"toggle", "delete"}, i \in Indices}
    \cup {[a |-> "users", noop |-> b] : b \in BOOLEAN}
    \cup {[a |-> x, tg_id |-> t] : x \in {"user", "uw", "ur", "ub"},
                                   t \in TargetIds}
    \cup {[a |-> "ud", tg_id |-> t, source |-> x] : t \in TargetIds,
                                                    x \in {"l", "s"}}

\* The keyboards are shown to administrators only; any other user can at
\* most send admin:* data made up by hand.
ForgedData ==
    {d \in CallbackData :
        \/ d.a \in {"menu", "add", "broadcast", "ub", "ud"}
        \/ d.a \in {"toggle", "delete"} /\ d.idx = 0}

DataSeenBy(u) == IF u \in admin_ids THEN CallbackData ELSE ForgedData

\* The branch of cb_admin_actions taken for the data d, pressed by user u on
\* message m.
CbDispatch(c, f, us, u, m, d) ==
    CASE d.a = "menu" -> CbMenu(c, f, us)
      [] d.a = "list" -> CbList(c, f, us)
      [] d.a = "toggle" -> CbToggle(c, f, us, d.idx)
      [] d.a = "delete" -> CbDelete(c, f, us, d.idx)
      [] d.a = "add" -> CbAdd(c, f, us, u, m)
      [] d.a = "add:back" -> CbAddBack(c, f, us)
      [] d.a = "broadcast" -> CbBroadcast(c, f, us, u, m)
      [] d.a = "stats" -> CbStats(c, f, us)
      [] d.a = "users" -> CbUsers(c, f, us, d.noop)
      [] d.a = "users_search" -> CbUsersSearch(c, f, us, u, m)
      [] d.a = "user" -> CbUser(c, f, us, d.tg_id)
      [] d.a = "uw" -> CbUw(c, f, us, u, m, d.tg_id)
      [] d.a = "ur" -> CbUr(c, f, us, d.tg_id)
      [] d.a = "ub" -> CbUb(c, f, us, d.tg_id)
      [] d.a = "ud" -> CbUd(c, f, us, d.tg_id, d.source)
      [] OTHER -> CbOther(c, f, us)

\* cb_admin_actions with one FSM context for the whole bot, not one per
\* user.
cb_admin_actions_SharedState(u, m, d) ==
    IF ~is_admin(u)
    THEN /\ ev' = CallbackEvent(u, d, "denied")
         /\ UNCHANGED <<rlVars, adminVars>>
    ELSE LET out == CbDispatch(fsm[u], file, users, u, m, d) IN
         /\ fsm' = [x \in DOMAIN fsm |-> out.ctx]
         /\ file' = out.file
         /\ users' = out.users
         /\ ev' = CallbackEvent(u, d, out.reply)
         /\ UNCHANGED <<rlVars, admin_ids, seq, tasks>>

cb_admin_actions(u, m, d) ==
    IF ~is_admin(u)
    THEN /\ ev' = CallbackEvent(u, d, "denied")
         /\ UNCHANGED <<rlVars, adminVars>>
    ELSE LET out == CbDispatch(fsm[u], file, users, u, m, d) IN
         /\ fsm' = [fsm EXCEPT ![u] = out.ctx]
         /\ file' = out.file
         /\ users' = out.users
         /\ ev' = CallbackEvent(u, d, out.reply)
         /\ UNCHANGED <<rlVars, admin_ids, seq, tasks>>

(***************************************************************************)
(* The admin console: one administrator, the other users are not.          *)
(***************************************************************************)
\* A proxy file written by hand: BOM, and an item without "enabled".
SeedFile ==
    [exists |-> TRUE, bom |-> TRUE,
     items |-> << [name |-> <<"n">>, server |-> <<"s">>, port |-> PyInt(1),
                   secret |-> <<"k">>] >>]

EmptyFile == [exists |-> TRUE, bom |-> FALSE, items |-> <<>>]

InitAdmin ==
    /\ now = 0
    /\ last_called = <<>>
    /\ accepted_at = <<>>
    /\ admin_ids = {1}
    /\ fsm = [u \in UserIds |-> Clear]
    /\ file \in {NoFile, EmptyFile, SeedFile}
    /\ users = [t \in TargetIds |->
                   [id |-> 1, first_seen |-> 0, last_seen |-> 0,
                    username |-> "u0", is_blocked |-> FALSE]]
    /\ seq = 1
    /\ tasks = <<>>
    /\ ev = [op |-> "init"]

NextAdmin ==
    \/ \E u \in UserIds : cmd_admin(u)
    \/ \E u \in UserIds : cancel_admin_state(u)
    \/ \E u \in UserIds, m \in MsgIds :
           \E d \in DataSeenBy(u) : cb_admin_actions(u, m, d)
    \/ \E u \in UserIds, t \in NameTexts : add_proxy_name(u, t)
    \/ \E u \in UserIds, t \in ServerTexts : add_proxy_server(u, t)
    \/ \E u \in UserIds, t \in PortTexts : add_proxy_port(u, t)
    \/ \E u \in UserIds, t \in SecretTexts : add_proxy_secret(u, t)

SpecAdmin == InitAdmin /\ [][NextAdmin]_vars

InitRL ==
    /\ now = 0
    /\ last_called = <<>>
    /\ accepted_at = <<>>
    /\ admin_ids = {}
    /\ fsm = <<>>
    /\ file = NoFile
    /\ users = <<>>
    /\ seq = 0
    /\ tasks = <<>>
    /\ ev = [op |-> "init"]

NextRL ==
    \/ Tick
    \/ \E u \in UserIds : Allowed(u)

SpecRL == InitRL /\ [][NextRL]_vars

(***************************************************************************)
(* The proxy store alone: every file of at most MaxProxies elements, read  *)
(* and rewritten.                                                          *)
(***************************************************************************)
\* The elements a proxy file may hold, written by hand or by save_all.
StoredItems ==
    {[name |-> <<x>>, server |-> <<"s">>, port |-> p, secret |-> <<"k">>] :
        x \in {"a", "b"}, p \in {PyInt(1), PyStr(<<"4", "4", "3">>)}}
    \cup {[name |-> <<x>>, server |-> <<"s">>, port |-> p, secret |-> <<"k">>,
           enabled |-> e] :
              x \in {"a", "b"}, p \in {PyInt(1), PyStr(<<"4", "4", "3">>)},
              e \in {PyBool(TRUE), PyBool(FALSE), PyNone}}

Files ==
    {NoFile} \cup
    {[exists |-> TRUE, bom |-> b, items |-> its] :
        b \in BOOLEAN,
        its \in UNION {[1..n -> StoredItems] : n \in 0..MaxProxies}}

\* proxy_store.load_all()
load_all ==
    /\ ev' = [op |-> "load_all", result |-> LoadAll(file)]
    /\ UNCHANGED <<rlVars, adminVars>>

\* proxy_store.load_enabled()
load_enabled ==
    /\ ev' = [op |-> "load_enabled", result |-> LoadEnabled(file),
              before |-> file]
    /\ UNCHANGED <<rlVars, adminVars>>

\* proxy_store.save_all(proxy_store.load_all())
save_all_loaded ==
    /\ file' = SaveAll(LoadAll(file))
    /\ ev' = [op |-> "save_all", loaded |-> LoadAll(file), before |-> file]
    /\ UNCHANGED <<rlVars, admin_ids, fsm, users, seq, tasks>>

InitStore ==
    /\ now = 0
    /\ last_called = <<>>
    /\ accepted_at = <<>>
    /\ admin_ids = {}
    /\ fsm = <<>>
    /\ file \in Files
    /\ users = <<>>
    /\ seq = 0
    /\ tasks = <<>>
    /\ ev = [op |-> "init"]

NextStore ==
    \/ load_all
    \/ load_enabled
    \/ save_all_loaded

SpecStore == InitStore /\ [][NextStore]_vars

(***************************************************************************)
(* The users table alone: touched, paged through and deleted from.         *)
(***************************************************************************)
MaxSeq == 3
MaxSeconds == 2
Usernames == {"u0", "u1"}
Pages == {0, 1, 2, 3}
PageSizes == {0, 1, 2}

\* The usernames a user is seen with: the first user changes theirs.
NamesOf(u) == IF u = 1 THEN Usernames ELSE {"u0"}

\* storage.touch_user(tg_id, username, full_name)
touch_user(u, username) ==
    LET r == TouchUser(users, seq, u, username, UtcNow) IN
    /\ u \in DOMAIN users \/ seq < MaxSeq
    /\ users' = r.users
    /\ seq' = r.seq
    /\ ev' = [op |-> "touch_user", user |-> u, at |-> UtcNow,
              had_row |-> u \in DOMAIN users,
              first_seen |-> IF u \in DOMAIN users THEN users[u].first_seen
                             ELSE UtcNow]
    /\ UNCHANGED <<rlVars, admin_ids, fsm, file, tasks>>

\* storage.get_users_page(page, page_size)
get_users_page(page, page_size) ==
    \E asc \in BOOLEAN :
        /\ ev' = [op |-> "get_users_page", page |-> page, size |-> page_size,
                  asc |-> asc,
                  result |-> UsersPage(users, page, page_size, asc)]
        /\ UNCHANGED <<rlVars, adminVars>>

\* storage.delete_user_by_tg_id(tg_id)
delete_user_by_tg_id(u) ==
    /\ users' = DeleteUser(users, u)
    /\ ev' = [op |-> "delete_user", user |-> u]
    /\ UNCHANGED <<rlVars, admin_ids, fsm, file, seq, tasks>>

InitUsers ==
    /\ now = 0
    /\ last_called = <<>>
    /\ accepted_at = <<>>
    /\ admin_ids = {}
    /\ fsm = <<>>
    /\ file = NoFile
    /\ users = <<>>
    /\ seq = 0
    /\ tasks = <<>>
    /\ ev = [op |-> "init"]

\* A second passes on the wall clock, up to MaxSeconds.
TickSecond ==
    /\ UtcNow < MaxSeconds
    /\ now' = now + TicksPerSec
    /\ ev' = [op |-> "tick"]
    /\ UNCHANGED <<last_called, accepted_at, adminVars>>

NextUsers ==
    \/ TickSecond
    \/ \E u \in UserIds : \E n \in NamesOf(u) : touch_user(u, n)
    \/ \E u \in UserIds : delete_user_by_tg_id(u)
    \/ \E page \in Pages, size \in PageSizes : get_users_page(page, size)

SpecUsers == InitUsers /\ [][NextUsers]_vars

(***************************************************************************)
(* Handlers as coroutines.  start_polling handles every update in a task   *)
(* of its own on one event loop: a handler runs without interruption from  *)
(* one await of a Telegram call to the next, and other handlers run while  *)
(* it is suspended there.  tasks holds the suspended handlers, at most      *)
(* MaxTasks at a time; pc names the await a task is suspended at.          *)
(***************************************************************************)
MaxTasks == 2
TaskIds == 1..MaxTasks

\* proxies[idx].enabled = not proxies[idx].enabled, idx counted from 0
Toggled(proxies, idx) == [proxies EXCEPT ![idx + 1].enabled = ~@]

\* A toggle branch that awaits between load_all and save_all: it is
\* suspended at "loaded" holding the list it read.
ToggleTaskStep_AwaitBeforeSave(t, f) ==
    CASE t.pc = "start" /\ ~is_admin(t.user) ->
             [task |-> [t EXCEPT !.pc = "denied"], file |-> f]
      [] t.pc = "start" /\ is_admin(t.user)
                       /\ (t.idx < 0 \/ t.idx >= Len(LoadAll(f))) ->
             [task |-> [t EXCEPT !.pc = "alert"], file |-> f]
      [] t.pc = "start" /\ is_admin(t.user)
                       /\ ~(t.idx < 0 \/ t.idx >= Len(LoadAll(f))) ->
             [task |-> [t EXCEPT !.pc = "loaded",
                                 !.proxies = Toggled(LoadAll(f), t.idx)],
              file |-> f]
      [] t.pc = "loaded" ->
             [task |-> [t EXCEPT !.pc = "answer"], file |-> SaveAll(t.proxies)]
      [] t.pc = "answer" -> [task |-> [t EXCEPT !.pc = "edit"], file |-> f]
      [] OTHER -> [task |-> [t EXCEPT !.pc = "done"], file |-> f]

\* cb_admin_actions, branch toggle, from one await to the next:
\*   start  -> the admin check, load_all, the index check, the flag flipped,
\*             save_all; suspended in callback.answer ("answer"), or in the
\*             alert of a refusal ("denied", "alert")
\*   answer -> the list rendered from the local proxies; suspended in
\*             callback.message.edit_text ("edit")
\*   edit, denied, alert -> the handler returns ("done")
ToggleTaskStep(t, f) ==
    CASE t.pc = "start" /\ ~is_admin(t.user) ->
             [task |-> [t EXCEPT !.pc = "denied"], file |-> f]
      [] t.pc = "start" /\ is_admin(t.user)
                       /\ (t.idx < 0 \/ t.idx >= Len(LoadAll(f))) ->
             [task |-> [t EXCEPT !.pc = "alert"], file |-> f]
      [] t.pc = "start" /\ is_admin(t.user)
                       /\ ~(t.idx < 0 \/ t.idx >= Len(LoadAll(f))) ->
             [task |-> [t EXCEPT !.pc = "answer",
                                 !.proxies = Toggled(LoadAll(f), t.idx)],
              file |-> SaveAll(Toggled(LoadAll(f), t.idx))]
      [] t.pc = "answer" -> [task |-> [t EXCEPT !.pc = "edit"], file |-> f]
      [] OTHER -> [task |-> [t EXCEPT !.pc = "done"], file |-> f]

\* The task the dispatcher creates for admin:toggle:<idx> pressed by u.
\* stored is history: the list in the file when the update arrived.
ToggleTask(u, idx, f) ==
    [pc |-> "start", kind |-> "toggle", user |-> u, idx |-> idx,
     proxies |-> <<>>, stored |-> LoadAll(f)]

\* The event loop runs the toggle task s up to its next await.
toggle_resume(s) ==
    /\ tasks[s].pc # "done"
    /\ tasks[s].kind = "toggle"
    /\ LET r == ToggleTaskStep(tasks[s], file) IN
           /\ tasks' = [tasks EXCEPT ![s] = r.task]
           /\ file' = r.file
           /\ ev' = [op |-> "toggle", user |-> tasks[s].user, task |-> s,
                     from |-> tasks[s].pc, to |-> r.task.pc]
    /\ UNCHANGED <<rlVars, admin_ids, fsm, users, seq>>

\* Two proxies, the second disabled, as save_all wrote them.
TwoProxies ==
    SaveAll(<< [name |-> <<"a">>, server |-> <<"s">>, port |-> 1,
                secret |-> <<"k">>, enabled |-> TRUE],
               [name |-> <<"b">>, server |-> <<"s">>, port |-> 443,
                secret |-> <<"k">>, enabled |-> FALSE] >>)

\* Toggle callbacks of the two administrators that arrived in one batch of
\* updates: a task was created for each before any of them ran.
InitToggle ==
    /\ now = 0
    /\ last_called = <<>>
    /\ accepted_at = <<>>
    /\ admin_ids = {1, 2}
    /\ fsm = [u \in UserIds |-> Clear]
    /\ file \in {SeedFile, TwoProxies}
    /\ users = <<>>
    /\ seq = 0
    /\ tasks \in [TaskIds -> {ToggleTask(u, idx, file) :
                                 u \in UserIds, idx \in Indices}]
    /\ ev = [op |-> "init"]

NextToggle == \E s \in TaskIds : toggle_resume(s)

SpecToggle == InitToggle /\ [][NextToggle]_vars

\* The toggle tasks of index idx that have returned from save_all.
Saved(idx) ==
    {s \in TaskIds :
        /\ tasks[s].idx = idx
        /\ idx < Len(tasks[s].stored)
        /\ tasks[s].user \in admin_ids
        /\ tasks[s].pc \in {"answer", "edit", "done"}}

\* C16 as stated: the toggle's load_all and save_all are not one
\* uninterrupted step; a toggle that has loaded the list is suspended before
\* it saves, so that another toggle can load the same list in between and
\* one of the two updates is lost.
C16_ToggleYieldsBeforeSave ==
    [][\A s \in TaskIds :
        (tasks[s].pc = "start" /\ tasks'[s] # tasks[s]) => file' = file
      ]_vars

\* C16 amended: the toggle branch has no await between load_all and
\* save_all, so on the bot's one event loop toggle callbacks handled
\* concurrently never interleave inside the cycle and no update is lost:
\* at every moment the stored list is the list stored when the callbacks
\* arrived with each flag flipped once for every toggle of its index that
\* has saved, which is the result of applying those toggles one after the
\* other.
C16_TogglesSerialize ==
    \A s \in TaskIds :
        LET was == tasks[s].stored
            is == LoadAll(file)
        IN  /\ Len(is) = Len(was)
            /\ \A i \in 1..Len(was) :
                  /\ is[i].name = was[i].name
                  /\ is[i].enabled =
                        IF Cardinality(Saved(i - 1)) % 2 = 1
                        THEN ~was[i].enabled ELSE was[i].enabled

\* C16 witness: the two administrators pressed toggle for the first proxy
\* of the same list; both handlers have saved and returned, each having
\* rendered a different list, and the flag is as it was.
C16_Witness ==
    /\ tasks[1].pc = "done" /\ tasks[2].pc = "done"
    /\ tasks[1].user # tasks[2].user
    /\ tasks[1].idx = 0 /\ tasks[2].idx = 0
    /\ Saved(0) = {1, 2}
    /\ tasks[1].proxies # tasks[2].proxies
    /\ LoadAll(file) = tasks[1].stored

(***************************************************************************)
(* send_broadcast as a coroutine, with the administrator's other updates   *)
(* handled while it is suspended.                                          *)
(***************************************************************************)
MaxBroadcasts == 1

Idle == [pc |-> "idle"]

\* The slot a new task is given.
FreeSlot(ts) == CHOOSE s \in DOMAIN ts : ts[s] = Idle

\* What bot.send_message does: it returns, raises TelegramForbiddenError
\* (the recipient blocked the bot), raises TelegramBadRequest, or raises
\* another error (TelegramRetryAfter on a flood limit, TelegramNetworkError,
\* TelegramServerError).
SendOutcomes == {"ok", "forbidden", "bad_request", "error"}

\* The task the dispatcher creates for a text message of u in state
\* BroadcastForm:text.
BroadcastTask(u, text) ==
    [pc |-> "start", kind |-> "broadcast", user |-> u, text |-> text,
     ids |-> <<>>, sent |-> <<>>, success |-> 0, failed |-> 0]

\* The end of send_broadcast after the loop: state.get_data(),
\* state.clear(), then the report, in the panel or as a new message.
BroadcastFinish(t, c) ==
    [task |-> [t EXCEPT !.pc = "report"], ctx |-> Clear,
     reply |-> IF HasPanel(c) THEN "panel_report" ELSE "report"]

\* send_broadcast from one await to the next, for the task t of a user
\* whose FSM context is c, the users table us and the outcome of the send
\* the task is suspended in:
\*   start    -> the admin check; suspended in message.delete() ("delete")
\*   delete   -> an empty text: the panel edited ("edit"), the handler
\*               returns; else the panel edited ("progress")
\*   progress -> suspended in storage.get_all_user_ids() ("select")
\*   select   -> user_ids read; no user: the end; else the first send
\*   send     -> the send counted as success or failed, or its error
\*               raised out of the handler ("raised"); the next send, or
\*               the end
\*   report, edit, raised -> the handler is over ("idle")
BroadcastStep(t, c, us, outcome) ==
    CASE t.pc = "start" ->
             IF ~is_admin(t.user)
             THEN [task |-> Idle, ctx |-> c, reply |-> "ignored"]
             ELSE [task |-> [t EXCEPT !.pc = "delete"], ctx |-> c,
                   reply |-> "deleting"]
      [] t.pc = "delete" /\ Strip(t.text) = <<>> ->
             [task |-> [t EXCEPT !.pc = "edit"], ctx |-> c,
              reply |-> "text_empty"]
      [] t.pc = "delete" /\ Strip(t.text) # <<>> ->
             [task |-> [t EXCEPT !.pc = "progress"], ctx |-> c,
              reply |-> "in_progress"]
      [] t.pc = "progress" ->
             [task |-> [t EXCEPT !.pc = "select"], ctx |-> c,
              reply |-> "selecting"]
      [] t.pc = "select" ->
             IF AllUserIds(us) = <<>>
             THEN BroadcastFinish([t EXCEPT !.ids = <<>>], c)
             ELSE [task |-> [t EXCEPT !.pc = "send", !.ids = AllUserIds(us)],
                   ctx |-> c, reply |-> "sending"]
      [] t.pc = "send" /\ outcome = "error" ->
             [task |-> [t EXCEPT !.pc = "raised"], ctx |-> c,
              reply |-> "raised"]
      [] t.pc = "send" /\ outcome # "error" ->
             LET u == [t EXCEPT
                          !.sent = Append(@, t.ids[Len(t.sent) + 1]),
                          !.success = IF outcome = "ok" THEN @ + 1 ELSE @,
                          !.failed = IF outcome = "ok" THEN @ ELSE @ + 1]
             IN  IF Len(u.sent) < Len(u.ids)
                 THEN [task |-> u, ctx |-> c, reply |-> "sending"]
                 ELSE BroadcastFinish(u, c)
      [] OTHER -> [task |-> Idle, ctx |-> c, reply |-> "returned"]

\* The dispatcher routes a text message of u to send_broadcast: u is in
\* state BroadcastForm:text when the message is filtered.
broadcast_update(u, text) ==
    /\ fsm[u].state = BroadcastText
    /\ Cardinality({s \in DOMAIN tasks : tasks[s] # Idle}) < MaxBroadcasts
    /\ tasks' = [tasks EXCEPT ![FreeSlot(tasks)] = BroadcastTask(u, text)]
    /\ ev' = [op |-> "update", user |-> u, a |-> "send_broadcast"]
    /\ UNCHANGED <<rlVars, admin_ids, fsm, file, users, seq>>

\* The event loop resumes the broadcast task s; the call it was suspended
\* in has ended with the outcome given.
broadcast_resume(s, outcome) ==
    /\ tasks[s] # Idle
    /\ tasks[s].kind = "broadcast"
    /\ outcome = "ok" \/ tasks[s].pc = "send"
    /\ LET t == tasks[s]
           r == BroadcastStep(t, fsm[t.user], users, outcome)
       IN  /\ tasks' = [tasks EXCEPT ![s] = r.task]
           /\ fsm' = [fsm EXCEPT ![t.user] = r.ctx]
           /\ ev' = [op |-> "send_broadcast", user |-> t.user, task |-> s,
                     from |-> t.pc, reply |-> r.reply,
                     was |-> fsm[t.user].state,
                     ids |-> IF r.task = Idle THEN t.ids ELSE r.task.ids,
                     sent |-> IF r.task = Idle THEN t.sent ELSE r.task.sent,
                     success |-> IF r.task = Idle THEN t.success
                                 ELSE r.task.success,
                     failed |-> IF r.task = Idle THEN t.failed
                                ELSE r.task.failed]
    /\ UNCHANGED <<rlVars, admin_ids, file, users, seq>>

\* What the administrator sends as the text of a broadcast.
BroadcastTexts == {<<" ">>, <<"m">>}

\* The buttons the administrator presses while a broadcast runs.
BroadcastData ==
    {d \in CallbackData : d.a \in {"menu", "broadcast", "add", "ud"}}

\* A user's first or later /start: storage.touch_user.
start_touch(u) ==
    /\ u \in DOMAIN users \/ seq < MaxSeq
    /\ LET r == TouchUser(users, seq, u, "u0", UtcNow)
       IN  users' = r.users /\ seq' = r.seq
    /\ ev' = [op |-> "touch_user", user |-> u]
    /\ UNCHANGED <<rlVars, admin_ids, fsm, file, tasks>>

InitBroadcast ==
    /\ now = 0
    /\ last_called = <<>>
    /\ accepted_at = <<>>
    /\ admin_ids = {1}
    /\ fsm = [u \in UserIds |-> Clear]
    /\ file = SeedFile
    /\ users = [t \in TargetIds |->
                   [id |-> 1, first_seen |-> 0, last_seen |-> 0,
                    username |-> "u0", is_blocked |-> FALSE]]
    /\ seq = 1
    /\ tasks = [s \in 1..MaxBroadcasts |-> Idle]
    /\ ev = [op |-> "init"]

NextBroadcast ==
    \/ \E u \in UserIds : cmd_admin(u)
    \/ \E u \in UserIds : cancel_admin_state(u)
    \/ \E u \in UserIds, m \in MsgIds :
           \E d \in BroadcastData : cb_admin_actions(u, m, d)
    \/ \E u \in UserIds : start_touch(u)
    \/ \E u \in UserIds, t \in BroadcastTexts : broadcast_update(u, t)
    \/ \E s \in 1..MaxBroadcasts, o \in SendOutcomes : broadcast_resume(s, o)

SpecBroadcast == InitBroadcast /\ [][NextBroadcast]_vars

\* C20: a broadcast sends exactly once to every user id read at its start,
\* counts every send as a success or as a failure, so that at its end the two
\* counts add up to the number of ids and the administrator's FSM state is
\* cleared; it never ends in another way.
C20_BroadcastCompletes ==
    ev.op = "send_broadcast" =>
        /\ ev.reply # "raised"
        /\ ev.reply \in {"report", "panel_report"} =>
               /\ ev.sent = ev.ids
               /\ ev.success + ev.failed = Len(ev.ids)
               /\ fsm[ev.user] = Clear

(***************************************************************************)
(* Two administrators and a user who is not one, each in a private chat    *)
(* with the bot: wizards, menus and broadcasts side by side.               *)
(***************************************************************************)
OwnerUsers == 1..(NumUsers + 1)

\* The buttons pressed: both administrators use the wizard and the menu,
\* the first one broadcasts, the second one lists the proxies; a user who is
\* no administrator sends forged data.
OwnerData(u) ==
    {d \in DataSeenBy(u) :
        \/ d.a \in {"menu", "add"}
        \/ d.a = "broadcast" /\ u = 1
        \/ d.a = "list" /\ u = 2}

\* What an administrator types at the step st of the wizard.
OwnerText(st) ==
    CASE st = AddName -> <<"n">>
      [] st = AddServer -> <<"s">>
      [] st = AddPort -> <<"1">>
      [] st = AddSecret -> <<"k">>
      [] OTHER -> <<"m">>

InitOwner ==
    /\ now = 0
    /\ last_called = <<>>
    /\ accepted_at = <<>>
    /\ admin_ids = {1, 2}
    /\ fsm = [u \in OwnerUsers |-> Clear]
    /\ file = SeedFile
    /\ users = [t \in TargetIds |->
                   [id |-> 1, first_seen |-> 0, last_seen |-> 0,
                    username |-> "u0", is_blocked |-> FALSE]]
    /\ seq = 1
    /\ tasks = [s \in 1..MaxBroadcasts |-> Idle]
    /\ ev = [op |-> "init"]

NextOwner ==
    \/ \E u \in OwnerUsers : cmd_admin(u)
    \/ \E u \in OwnerUsers : cancel_admin_state(u)
    \/ \E u \in OwnerUsers, m \in MsgIds :
           \E d \in OwnerData(u) : cb_admin_actions(u, m, d)
    \/ \E u \in OwnerUsers : add_proxy_name(u, OwnerText(AddName))
    \/ \E u \in OwnerUsers : add_proxy_server(u, OwnerText(AddServer))
    \/ \E u \in OwnerUsers : add_proxy_port(u, OwnerText(AddPort))
    \/ \E u \in OwnerUsers : add_proxy_secret(u, OwnerText(AddSecret))
    \/ \E u \in OwnerUsers : broadcast_update(u, OwnerText(BroadcastText))
    \/ \E s \in 1..MaxBroadcasts, o \in SendOutcomes : broadcast_resume(s, o)

SpecOwner == InitOwner /\ [][NextOwner]_vars

(***************************************************************************)
(* The wizard's message handlers as coroutines.  Each is suspended in      *)
(* message.delete() before it reads or writes the FSM context; whatever    *)
(* else is handled in the meantime has acted when it goes on.              *)
(***************************************************************************)
MaxRecords == 3

\* The task the dispatcher creates for a text message of u: the handler is
\* the one registered for the state u is in when the message is filtered.
\* seen is the proxy file of that moment, which the handler does not read.
WizardTask(u, st, text, f) ==
    [pc |-> "delete", kind |-> "wizard", user |-> u, handler |-> st,
     text |-> text, seen |-> f]

\* The handler of the task t after message.delete(), on the FSM context c
\* and the proxy file f of that moment.
\* The handlers with load_all() called before message.delete(): the list
\* saved is built on the file as it was when the message arrived.
WizardHandler_LoadsEarly(t, c, f) ==
    CASE t.handler = AddName -> NameStep(c, f, t.text)
      [] t.handler = AddServer -> ServerStep(c, f, t.text)
      [] t.handler = AddPort -> PortStep(c, f, t.text)
      [] OTHER -> IF SecretStep(c, f, t.text).file = f
                  THEN SecretStep(c, f, t.text)
                  ELSE SecretStep(c, t.seen, t.text)

WizardHandler(t, c, f) ==
    CASE t.handler = AddName -> NameStep(c, f, t.text)
      [] t.handler = AddServer -> ServerStep(c, f, t.text)
      [] t.handler = AddPort -> PortStep(c, f, t.text)
      [] OTHER -> SecretStep(c, f, t.text)

\* What the administrators type at the step st: a valid text or a blank one.
WizardTexts(st) == {OwnerText(st), <<" ">>}

\* The buttons pressed: those of the wizard and of the menu.
WizardData(u) == {d \in DataSeenBy(u) : d.a \in {"add", "add:back", "menu"}}

\* The dispatcher routes a text message of u to the wizard handler of the
\* state u is in.
wizard_update(u, text) ==
    /\ fsm[u].state \in WizardStates
    /\ is_admin(u)
    /\ \E s \in TaskIds : tasks[s] = Idle
    /\ tasks' = [tasks EXCEPT ![FreeSlot(tasks)] =
                                 WizardTask(u, fsm[u].state, text, file)]
    /\ ev' = [op |-> "update", user |-> u, a |-> fsm[u].state]
    /\ UNCHANGED <<rlVars, admin_ids, fsm, file, users, seq>>

\* The event loop resumes the wizard task s after message.delete(): the
\* handler reads and writes the FSM context and the file, and ends with the
\* edit of the panel, which changes neither.  The stored list stays within
\* MaxRecords.
wizard_resume(s) ==
    /\ tasks[s] # Idle
    /\ tasks[s].kind = "wizard"
    /\ LET t == tasks[s]
           out == WizardHandler(t, fsm[t.user], file)
       IN  /\ Len(LoadAll(out.file)) <= MaxRecords
           /\ tasks' = [tasks EXCEPT ![s] = Idle]
           /\ fsm' = [fsm EXCEPT ![t.user] = out.ctx]
           /\ file' = out.file
           /\ ev' = [op |-> "wizard", user |-> t.user, task |-> s,
                     handler |-> t.handler, was |-> fsm[t.user].state,
                     seen |-> LoadAll(t.seen), before |-> LoadAll(file),
                     reply |-> out.reply]
    /\ UNCHANGED <<rlVars, admin_ids, users, seq>>

\* No message of u is being handled: an administrator waits for the bot's
\* answer to one message before sending the next, and presses buttons at
\* any time.
Answered(u) ==
    \A s \in TaskIds : IF tasks[s] = Idle THEN TRUE ELSE tasks[s].user # u

InitWizards ==
    /\ now = 0
    /\ last_called = <<>>
    /\ accepted_at = <<>>
    /\ admin_ids = {1}
    /\ fsm = [u \in UserIds |-> Clear]
    /\ file = SeedFile
    /\ users = <<>>
    /\ seq = 0
    /\ tasks = [s \in TaskIds |-> Idle]
    /\ ev = [op |-> "init"]

NextWizards ==
    \/ \E u \in UserIds, m \in MsgIds :
           \E d \in WizardData(u) : cb_admin_actions(u, m, d)
    \/ \E u \in UserIds : \E t \in WizardTexts(fsm[u].state) :
           Answered(u) /\ wizard_update(u, t)
    \/ \E s \in TaskIds : wizard_resume(s)

SpecWizards == InitWizards /\ [][NextWizards]_vars

\* C21: every record of the store has a name that is not empty and a port
\* in 1..65535, whatever the administrator has done.
C21_RecordsStayValid ==
    \A i \in 1..Len(LoadAll(file)) :
        /\ LoadAll(file)[i].name # <<>>
        /\ LoadAll(file)[i].port \in 1..65535

(***************************************************************************)
(* Two administrators who each add proxies with the wizard.                *)
(***************************************************************************)
\* What administrator u types at the step st: the names tell the
\* administrators' proxies apart.
AdderText(u, st) ==
    IF st = AddName /\ u # 1 THEN <<"m">> ELSE OwnerText(st)

InitAdders ==
    /\ now = 0
    /\ last_called = <<>>
    /\ accepted_at = <<>>
    /\ admin_ids = {1, 2}
    /\ fsm = [u \in UserIds |-> Clear]
    /\ file = SeedFile
    /\ users = <<>>
    /\ seq = 0
    /\ tasks = [s \in TaskIds |-> Idle]
    /\ ev = [op |-> "init"]

NextAdders ==
    \/ \E u \in UserIds, m \in MsgIds :
           \E d \in {x \in DataSeenBy(u) : x.a = "add"} :
               Answered(u) /\ cb_admin_actions(u, m, d)
    \/ \E u \in UserIds :
           Answered(u) /\ wizard_update(u, AdderText(u, fsm[u].state))
    \/ \E s \in TaskIds : wizard_resume(s)

SpecAdders == InitAdders /\ [][NextAdders]_vars

(***************************************************************************)
(* The proxy list and its rows of buttons.  build_proxy_manage_keyboard    *)
(* gives row idx the data admin:toggle:<idx> and admin:delete:<idx>; the   *)
(* keyboard stays on the administrator's screen until the message is       *)
(* edited again.                                                           *)
(***************************************************************************)
\* The list keyboard on the anchor message of administrator u, built from
\* the list rows.
Keyboard(u, rows) ==
    [pc |-> "shown", kind |-> "keyboard", user |-> u, rows |-> rows]

\* The keyboard of the message after a branch of cb_admin_actions replied
\* reply and left the file f: the branch edits the message to the list with
\* its keyboard, or to a text with a back button, or only answers the
\* callback.
KeyboardAfter(old, u, reply, f) ==
    CASE reply \in {"list", "toggled", "deleted"} -> Keyboard(u, LoadAll(f))
      [] reply \in {"bad_index", "denied"} -> old
      [] OTHER -> Idle

\* admin:list pressed by u.
list_rows(u) ==
    /\ u \in TaskIds
    /\ IF ~is_admin(u)
       THEN /\ ev' = [op |-> "callback", user |-> u, a |-> "list",
                      reply |-> "denied"]
            /\ UNCHANGED <<rlVars, adminVars>>
       ELSE LET out == CbList(fsm[u], file, users) IN
            /\ fsm' = [fsm EXCEPT ![u] = out.ctx]
            /\ tasks' = [tasks EXCEPT
                            ![u] = KeyboardAfter(@, u, out.reply, out.file)]
            /\ ev' = [op |-> "callback", user |-> u, a |-> "list",
                      reply |-> out.reply]
            /\ UNCHANGED <<rlVars, admin_ids, file, users, seq>>

\* The button a of row idx of the keyboard in slot s is pressed: the
\* callback admin:<a>:<idx> of the administrator who sees the keyboard.
row_press(s, a, idx) ==
    /\ tasks[s] # Idle
    /\ tasks[s].kind = "keyboard"
    /\ idx \in 0..(Len(tasks[s].rows) - 1)
    /\ LET u == tasks[s].user
           d == [a |-> a, idx |-> idx]
           out == CbDispatch(fsm[u], file, users, u, s, d)
       IN  /\ fsm' = [fsm EXCEPT ![u] = out.ctx]
           /\ file' = out.file
           /\ users' = out.users
           /\ tasks' = [tasks EXCEPT
                           ![s] = KeyboardAfter(@, u, out.reply, out.file)]
           /\ ev' = [op |-> "callback", user |-> u, a |-> a, idx |-> idx,
                     row |-> tasks[s].rows[idx + 1],
                     before |-> LoadAll(file), reply |-> out.reply]
    /\ UNCHANGED <<rlVars, admin_ids, seq>>

InitRows ==
    /\ now = 0
    /\ last_called = <<>>
    /\ accepted_at = <<>>
    /\ admin_ids = {1, 2}
    /\ fsm = [u \in UserIds |-> Clear]
    /\ file \in {SeedFile, TwoProxies}
    /\ users = <<>>
    /\ seq = 0
    /\ tasks = [s \in TaskIds |-> Idle]
    /\ ev = [op |-> "init"]

NextRows ==
    \/ \E u \in UserIds : list_rows(u)
    \/ \E s \in TaskIds, a \in {"toggle", "delete"}, idx \in Indices :
           row_press(s, a, idx)

SpecRows == InitRows /\ [][NextRows]_vars

\* The proxy a record is of: everything but the flag.
ProxyOf(r) == [r EXCEPT !.enabled = TRUE]

\* C24: a toggle or a delete acts on the proxy of the row pressed: the
\* record changed or removed is the one shown in that row when the keyboard
\* was built.
C24_ActsOnRowPressed ==
    (/\ ev.op = "callback"
     /\ ev.reply \in {"toggled", "deleted", "deleted_list_empty"})
        => ProxyOf(ev.before[ev.idx + 1]) = ProxyOf(ev.row)

(***************************************************************************)
(* Writing to one user: the button admin:uw on a profile starts the        *)
(* session, the next text of the administrator is handled by               *)
(* user_write_message.                                                     *)
(***************************************************************************)
\* user_write_message after the admin check: the FSM context it leaves, the
\* bot.send_message calls it made to the target, and how it ended.  outcome
\* is what bot.send_message does: it returns, it raises one of the two exceptions
\* the handler catches, or it raises another one.  After the send the
\* handler calls storage.count_invited_by and reads user_data["invited_by"]
\* for the profile it is about to show; state.clear() is its last line.
UserWriteStep(c, us, text, outcome) ==
    LET text_to_send == Strip(text)
        target_tg_id == Get(c.data, "write_target_tg_id", PyInt(0)).i
        attempt == <<[to |-> target_tg_id, outcome |-> outcome]>>
    IN  IF target_tg_id = 0
        THEN [ctx |-> Clear, sent |-> <<>>, reply |-> "no_target"]
        ELSE IF text_to_send = <<>>
        THEN [ctx |-> c, sent |-> <<>>, reply |-> "text_empty"]
        ELSE IF target_tg_id \notin DOMAIN us
        THEN [ctx |-> Clear, sent |-> <<>>, reply |-> "user_not_found"]
        ELSE IF outcome = "error"
        THEN [ctx |-> c, sent |-> attempt, reply |-> "raised"]
        ELSE IF "count_invited_by" \notin StorageMethods
        THEN [ctx |-> c, sent |-> attempt, reply |-> "raised"]
        ELSE [ctx |-> Clear, sent |-> attempt,
              reply |-> IF outcome = "ok" THEN "sent" ELSE "not_sent"]

\* @router.message(UserWriteForm.text)
user_write_message(u, text, outcome) ==
    /\ fsm[u].state = WriteText
    /\ IF ~is_admin(u)
       THEN /\ ev' = Event("user_write_message", u, "ignored")
            /\ UNCHANGED <<rlVars, adminVars>>
       ELSE LET out == UserWriteStep(fsm[u], users, text, outcome) IN
            /\ fsm' = [fsm EXCEPT ![u] = out.ctx]
            /\ ev' = [op |-> "user_write_message", user |-> u,
                      was |-> fsm[u].state, text |-> text,
                      known |-> Get(fsm[u].data, "write_target_tg_id",
                                    PyInt(0)).i \in DOMAIN users,
                      sent |-> out.sent, reply |-> out.reply]
            /\ UNCHANGED <<rlVars, admin_ids, file, users, seq, tasks>>

InitWrite ==
    /\ now = 0
    /\ last_called = <<>>
    /\ accepted_at = <<>>
    /\ admin_ids = {1}
    /\ fsm = [u \in UserIds |-> Clear]
    /\ file = SeedFile
    /\ users = [t \in TargetIds |->
                   [id |-> 1, first_seen |-> 0, last_seen |-> 0,
                    username |-> "u0", is_blocked |-> FALSE]]
    /\ seq = 1
    /\ tasks = <<>>
    /\ ev = [op |-> "init"]

NextWrite ==
    \/ \E u \in UserIds : cmd_admin(u)
    \/ \E u \in UserIds, m \in MsgIds :
           \E d \in CallbackData :
               /\ d.a \in {"menu", "user", "uw", "ub", "ud", "add"}
               /\ cb_admin_actions(u, m, d)
    \/ \E u \in UserIds, t \in BroadcastTexts, o \in SendOutcomes :
           user_write_message(u, t, o)
    \/ \E u \in TargetIds : \E n \in NamesOf(u) : touch_user(u, n)

SpecWrite == InitWrite /\ [][NextWrite]_vars

\* C28: a write session passes on at most one message: a text that is not
\* blank, written for a user who has a row, is sent once and ends the
\* session (the FSM state is cleared, so the next text is not passed on); a
\* blank text sends nothing and leaves the session open.
C28_OneMessagePerSession ==
    (ev.op = "user_write_message" /\ ev.reply # "ignored") =>
        /\ Len(ev.sent) <= 1
        /\ (Strip(ev.text) # <<>> /\ ev.known) =>
               /\ Len(ev.sent) = 1
               /\ fsm[ev.user] = Clear
        /\ Strip(ev.text) = <<>> =>
               /\ ev.sent = <<>>
               /\ fsm[ev.user].state = WriteText

(***************************************************************************)
(* /proxy (app/handlers/proxy.py), with an administrator who disables and  *)
(* deletes proxies meanwhile.                                              *)
(***************************************************************************)
\* The messages of a /proxy that goes on to send the list although it is
\* empty.
ProxyMessages_NoEmptyCheck(allowed, proxies) ==
    IF ~allowed THEN <<"too_often">>
    ELSE <<"intro">> \o [i \in 1..Len(proxies) |-> proxies[i].name]

\* The messages cmd_proxy answers with: the rate-limit notice, the
\* "temporarily unavailable" notice, or the intro and one message per
\* enabled proxy (named here by the proxy's name).
\* cmd_proxy sending the proxies without the intro.
ProxyMessages_NoIntro(allowed, proxies) ==
    IF ~allowed THEN <<"too_often">>
    ELSE IF proxies = <<>> THEN <<"unavailable">>
    ELSE [i \in 1..Len(proxies) |-> proxies[i].name]

ProxyMessages(allowed, proxies) ==
    IF ~allowed THEN <<"too_often">>
    ELSE IF proxies = <<>> THEN <<"unavailable">>
    ELSE <<"intro">> \o [i \in 1..Len(proxies) |-> proxies[i].name]

\* cmd_proxy: touch_user, rate_limiter.allowed, load_enabled, the answers.
cmd_proxy(u) ==
    LET t == TouchUser(users, seq, u, "u0", UtcNow)
        r == AllowedResult(last_called, u, now)
    IN  /\ users' = t.users
        /\ seq' = t.seq
        /\ last_called' = r[3]
        /\ accepted_at' =
              IF r[1] THEN RecordCall(accepted_at, u, now) ELSE accepted_at
        /\ ev' = [op |-> "cmd_proxy", user |-> u, ok |-> r[1],
                  retry_after |-> r[2], read |-> r[1],
                  sent |-> ProxyMessages(r[1], LoadEnabled(file))]
        /\ UNCHANGED <<now, admin_ids, fsm, file, tasks>>

\* A second passes, until one cooldown has gone by.
TickCooldown ==
    /\ UtcNow < cooldown_seconds
    /\ now' = now + TicksPerSec
    /\ ev' = [op |-> "tick"]
    /\ UNCHANGED <<last_called, accepted_at, adminVars>>

InitProxy ==
    /\ now = 0
    /\ last_called = <<>>
    /\ accepted_at = <<>>
    /\ admin_ids = {1}
    /\ fsm = [u \in UserIds |-> Clear]
    /\ file \in {NoFile, EmptyFile, SeedFile, TwoProxies}
    /\ users = <<>>
    /\ seq = 0
    /\ tasks = <<>>
    /\ ev = [op |-> "init"]

NextProxy ==
    \/ TickCooldown
    \/ \E u \in UserIds : cmd_proxy(u)
    \/ \E u \in admin_ids, m \in MsgIds :
           \E d \in {[a |-> x, idx |-> i] :
                       x \in {"toggle", "delete"}, i \in {0, 1}} :
               cb_admin_actions(u, m, d)

SpecProxy == InitProxy /\ [][NextProxy]_vars

\* C19 as stated: while the proxy file is empty or absent every /proxy is
\* answered with the "temporarily unavailable" notice and sends neither the
\* intro nor a message for a proxy.
C19_EmptyFileUnavailable ==
    (ev.op = "cmd_proxy" /\ LoadAll(file) = <<>>) =>
        ev.sent = <<"unavailable">>

\* C19 amended: while the proxy file is absent or holds an empty array,
\* every /proxy the rate limiter accepts is answered with the "temporarily
\* unavailable" notice alone and every /proxy it rejects with the "too
\* often" notice alone; neither sends the intro or a message for a proxy.
C19_EmptyFileUnavailableOrTooOften ==
    (ev.op = "cmd_proxy" /\ LoadAll(file) = <<>>) =>
        /\ ev.ok => ev.sent = <<"unavailable">>
        /\ ~ev.ok => ev.sent = <<"too_often">>
        /\ \A i \in 1..Len(ev.sent) :
              ev.sent[i] \in {"unavailable", "too_often"}

\* C19 witness: a /proxy the rate limiter accepted was answered "temporarily
\* unavailable" alone; the file is there and holds an empty array.
C19_Witness ==
    /\ ev.op = "cmd_proxy"
    /\ ev.ok
    /\ ev.sent = <<"unavailable">>
    /\ file = SaveAll(<<>>)
    /\ ev.user \in DOMAIN users

\* The enabled records of the stored list, in the order of the file.
EnabledInOrder == SelectSeq(LoadAll(file), LAMBDA p : p.enabled)

\* C27: every /proxy touches the user, then asks the rate limiter.  One
\* that is rate-limited sends the "too often" notice alone, does not read
\* the proxy store and leaves the limiter's recorded times as they are; one
\* that is allowed while n >= 1 proxies are enabled sends the intro and then
\* n messages, one for each enabled proxy in the order of the file.
C27_TouchThenLimitThenSend ==
    [][\A u \in UserIds :
        cmd_proxy(u) =>
            /\ u \in DOMAIN users'
            /\ ev'.ok = AllowedResult(last_called, u, now)[1]
            /\ ~ev'.ok =>
                  /\ ev'.sent = <<"too_often">>
                  /\ ~ev'.read
                  /\ last_called' = last_called
            /\ (ev'.ok /\ Len(EnabledInOrder) >= 1) =>
                  /\ Len(ev'.sent) = 1 + Len(EnabledInOrder)
                  /\ ev'.sent[1] = "intro"
                  /\ \A i \in 1..Len(EnabledInOrder) :
                        ev'.sent[i + 1] = EnabledInOrder[i].name
      ]_vars

\* C27 witness: an allowed /proxy while both stored proxies are enabled was
\* answered with the intro, then a, then b; the user is in the table.
C27_Witness ==
    /\ ev.op = "cmd_proxy" /\ ev.ok
    /\ Len(ev.sent) = 3
    /\ ev.sent[2] = <<"a">>
    /\ ev.sent[3] = <<"b">>
    /\ ev.user \in DOMAIN users

(***************************************************************************)
(* Claims about the users table, checked under SpecUsers.                  *)
(***************************************************************************)

\* C17: touch_user of an identifier without a row inserts a row with
\* first_seen = last_seen = now; of an identifier with a row it leaves
\* first_seen as it was and sets last_seen to the time of the call.
C17_TouchUpdatesLastSeen ==
    ev.op = "touch_user" =>
        /\ ev.user \in DOMAIN users
        /\ users[ev.user].first_seen = ev.first_seen
        /\ users[ev.user].last_seen = ev.at
        /\ ~ev.had_row => users[ev.user].first_seen = ev.at

\* The pages 1..n of size rows each, one after the other.
RECURSIVE PagesUpTo(_, _, _, _)
PagesUpTo(us, n, size, asc) ==
    IF n = 0 THEN <<>>
    ELSE PagesUpTo(us, n - 1, size, asc) \o UsersPage(us, n, size, asc)

\* The number of the last page: the pages needed for all rows, at least one.
LastPage(us, size) == Max(1, (Cardinality(DOMAIN us) + size - 1) \div size)

\* The sequence of tg_ids names every row of the table once, first_seen
\* descending.
EveryUserOnceNewestFirst(us, ids) ==
    /\ Len(ids) = Cardinality(DOMAIN us)
    /\ {ids[i] : i \in 1..Len(ids)} = DOMAIN us
    /\ \A i \in 1..(Len(ids) - 1) :
          us[ids[i]].first_seen >= us[ids[i + 1]].first_seen

\* C18 as stated: get_users_page(page, size) returns at most size rows for
\* every page and size, the empty list beyond the last page, and the pages
\* 1..last hold every user once, first_seen descending.
C18_AtMostSizeRows ==
    ev.op = "get_users_page" =>
        /\ Len(ev.result) <= ev.size
        /\ ev.size >= 1 =>
              /\ ev.page > LastPage(users, ev.size) => ev.result = <<>>
              /\ EveryUserOnceNewestFirst(
                     users,
                     PagesUpTo(users, LastPage(users, ev.size), ev.size,
                               ev.asc))

\* C18 amended: a size below 1 is read as 1 and a page below 1 as page 1;
\* get_users_page returns at most max(1, size) rows, the empty list beyond
\* the last page, and the pages 1..last hold every user once, first_seen
\* descending, whichever way the query orders rows of equal first_seen.
C18_AtMostClampedSizeRows ==
    ev.op = "get_users_page" =>
        LET size == Max(1, ev.size)
            page == Max(1, ev.page)
        IN  /\ Len(ev.result) <= size
            /\ page > LastPage(users, size) => ev.result = <<>>
            /\ ev.result = UsersPage(users, page, size, ev.asc)
            /\ \A i \in 1..Len(ev.result) : ev.result[i] \in DOMAIN users
            /\ EveryUserOnceNewestFirst(
                   users, PagesUpTo(users, LastPage(users, size), size, ev.asc))

\* C18 witness: the second page of size 1 of a table of two rows with the
\* same first_seen holds the one row the first page did not.
C18_Witness ==
    /\ ev.op = "get_users_page"
    /\ ev.page = 2
    /\ ev.size = 1
    /\ Cardinality(DOMAIN users) = 2
    /\ \A x, y \in DOMAIN users : users[x].first_seen = users[y].first_seen
    /\ Len(ev.result) = 1
    /\ ev.result # UsersPage(users, 1, 1, ev.asc)

(***************************************************************************)
(* Claims about the admin console, checked under SpecAdmin.                *)
(***************************************************************************)

\* r is text with its leading and trailing whitespace removed.
IsTrimOf(r, text) ==
    \E i \in 1..(Len(text) + 1), j \in 0..Len(text) :
        /\ r = SubSeq(text, i, j)
        /\ \A x \in 1..Len(text) : (x < i \/ x > j) => text[x] \in WhiteSpace
        /\ r # <<>> => r[1] \notin WhiteSpace /\ r[Len(r)] \notin WhiteSpace

Blank(text) == \A x \in 1..Len(text) : text[x] \in WhiteSpace

\* The data dict d with the value v under key.
DataWith(d, key, v) ==
    /\ DOMAIN d = DOMAIN v.data
    /\ key \in DOMAIN d
    /\ \A x \in DOMAIN d : x # key => d[x] = v.data[x]

ValidPortText(t) ==
    \E r \in {SubSeq(t, i, j) : i \in 1..Len(t), j \in 1..Len(t)} :
        /\ IsTrimOf(r, t)
        /\ r # <<>>
        /\ \A x \in 1..Len(r) : r[x] \in DecimalDigits
        /\ IntOf(r) \in 1..65535

\* C5: in step Port an input is accepted (pending port set, step Secret)
\* exactly when its trimmed text is a decimal number in 1..65535, and is
\* otherwise refused with the step still Port; "0", "65536", "abc" and "" are
\* refused, "1" and "65535" are accepted.
C5_PortValidation ==
    [][\A u \in admin_ids :
        (ev'.op = "add_proxy_port" /\ ev'.user = u) =>
            \A t \in PortTexts : add_proxy_port(u, t) =>
                /\ ValidPortText(t) =>
                      /\ fsm'[u].state = AddSecret
                      /\ fsm'[u].data.port.k = "int"
                      /\ fsm'[u].data.port.i \in 1..65535
                /\ ~ValidPortText(t) => fsm' = fsm /\ fsm'[u].state = AddPort
                /\ t \in {<<"0">>, <<"6", "5", "5", "3", "6">>,
                          <<"a", "b", "c">>, <<>>} =>
                      fsm'[u] = fsm[u] /\ fsm'[u].state = AddPort
                /\ t = <<"1">> =>
                      fsm'[u].state = AddSecret
                      /\ fsm'[u].data.port = PyInt(1)
                /\ t = <<"6", "5", "5", "3", "5">> =>
                      fsm'[u].state = AddSecret
                      /\ fsm'[u].data.port = PyInt(65535)
      ]_vars

\* C5 witness: port 65535 has just been accepted.
C5_Witness ==
    /\ ev.op = "add_proxy_port"
    /\ ev.was = AddPort
    /\ fsm[ev.user].state = AddSecret
    /\ fsm[ev.user].data.port = PyInt(65535)

\* C6: admin:add:back moves Server to Name, Port to Server and Secret to
\* Port, keeping every pending field and the proxy file; in any other FSM
\* state it changes nothing.
C6_BackOneStep ==
    [][\A u \in admin_ids :
        (ev'.op = "callback" /\ ev'.user = u /\ ev'.a = "add:back") =>
            \A m \in MsgIds : cb_admin_actions(u, m, [a |-> "add:back"]) =>
                /\ file' = file
                /\ users' = users
                /\ fsm'[u].data = fsm[u].data
                /\ \A v \in UserIds \ {u} : fsm'[v] = fsm[v]
                /\ fsm'[u].state =
                      CASE fsm[u].state = AddServer -> AddName
                        [] fsm[u].state = AddPort -> AddServer
                        [] fsm[u].state = AddSecret -> AddPort
                        [] OTHER -> fsm[u].state
      ]_vars

\* C6 witness: back from Secret to Port, the port entered still pending.
C6_Witness ==
    /\ ev.op = "callback"
    /\ ev.a = "add:back"
    /\ ev.reply = "prompt_port"
    /\ ev.was = AddSecret
    /\ fsm[ev.user].state = AddPort
    /\ fsm[ev.user].data.port.k = "int"

\* The update just handled is a wizard event of u: a text input, back,
\* cancel (admin:menu) or /cancel.
WizardEvent(u) ==
    /\ ev'.user = u
    /\ \/ ev'.op \in {"add_proxy_name", "add_proxy_server", "add_proxy_port",
                      "add_proxy_secret", "cmd_cancel"}
       \/ /\ ev'.op = "callback"
          /\ \E m \in MsgIds :
                \/ cb_admin_actions(u, m, [a |-> "add:back"])
                \/ cb_admin_actions(u, m, [a |-> "menu"])

C8_CancelClears ==
    [][\A u \in admin_ids :
        /\ (ev'.op = "callback" /\ ev'.user = u /\ ev'.a = "menu") =>
              \A m \in MsgIds : cb_admin_actions(u, m, [a |-> "menu"]) =>
                  /\ fsm'[u] = [state |-> StateNone, data |-> <<>>]
                  /\ ev'.reply = "menu"
                  /\ file' = file
        /\ (ev'.op = "cmd_cancel" /\ ev'.user = u /\ cancel_admin_state(u)) =>
                  IF fsm[u].state = StateNone
                  THEN fsm' = fsm /\ file' = file /\ users' = users
                  ELSE /\ fsm'[u] = [state |-> StateNone, data |-> <<>>]
                       /\ ev'.reply \in {"menu", "panel_menu"}
                       /\ file' = file
      ]_vars

\* C8 witness: the wizard was cancelled with admin:menu in step Secret.
C8_Witness ==
    /\ ev.op = "callback"
    /\ ev.a = "menu"
    /\ ev.reply = "menu"
    /\ ev.was = AddSecret
    /\ fsm[ev.user].state = StateNone
    /\ fsm[ev.user].data = <<>>

WizardDiscarded(u) ==
    \/ fsm'[u].state \notin WizardStates
    \/ /\ fsm'[u].state = AddName
       /\ \A key \in {"name", "server", "port"} :
             fsm'[u].data[key] = PyStr(<<>>)

\* The admin menu actions the claim C10 lists.
OtherMenuActions ==
    {d \in CallbackData :
        d.a \in {"add", "list", "toggle", "delete", "broadcast", "stats",
                 "users", "users_search", "user", "uw", "ur", "ub", "ud"}}

\* C10 as stated: every admin menu action handled while an add-proxy wizard
\* is in flight discards the wizard.
C10_AnyActionDiscards ==
    [][\A u \in admin_ids :
        (fsm[u].state \in WizardStates /\ ev'.user = u) =>
            /\ ev'.op = "cmd_admin" => WizardDiscarded(u)
            /\ ev'.op = "callback" =>
                  \A m \in MsgIds, d \in {x \in OtherMenuActions : x.a = ev'.a} :
                      cb_admin_actions(u, m, d) => WizardDiscarded(u)
      ]_vars

\* C10 amended: /admin and the actions menu, list, add, broadcast, stats,
\* users, users_search, user, and uw for a user of the table, discard a
\* wizard in flight; toggle, delete, ur, ub, ud, uw for an unknown user and
\* unrecognised data leave its step and pending fields as they are.
C10_EntryActionsDiscard ==
    [][\A u \in admin_ids :
        (fsm[u].state \in WizardStates /\ ev'.user = u) =>
            /\ ev'.op = "cmd_admin" => fsm'[u] = Clear
            /\ ev'.op = "callback" =>
                  \A m \in MsgIds,
                     d \in {x \in CallbackData : x.a = ev'.a /\ x.a # "add:back"} :
                      cb_admin_actions(u, m, d) =>
                          IF \/ d.a \in {"menu", "list", "add", "broadcast",
                                         "stats", "users", "users_search",
                                         "user"}
                             \/ d.a = "uw" /\ d.tg_id \in DOMAIN users
                          THEN WizardDiscarded(u)
                          ELSE fsm'[u] = fsm[u]
      ]_vars

\* C10 witness: a new wizard was started in step Secret of another; nothing
\* of the old one is pending.
C10_Witness ==
    /\ ev.op = "callback"
    /\ ev.a = "add"
    /\ ev.reply = "prompt_name"
    /\ ev.was = AddSecret
    /\ fsm[ev.user].state = AddName
    /\ fsm[ev.user].data.name = PyStr(<<>>)
    /\ fsm[ev.user].data.port = PyStr(<<>>)

\* C12: /admin and every admin:* callback of a user who is not in admin_ids
\* is answered with the "not enough rights" notice and changes nothing: no
\* FSM context, not the proxy file, no row of the users table.
C12_NonAdminRejected ==
    [][\A u \in UserIds \ admin_ids :
        (ev'.user = u /\ ev'.op \in {"cmd_admin", "callback"}) =>
            /\ ev'.reply = "denied"
            /\ fsm' = fsm
            /\ file' = file
            /\ users' = users
            /\ ev'.op = "cmd_admin" => cmd_admin(u)
            /\ ev'.op = "callback" =>
                  \E m \in MsgIds, d \in ForgedData : cb_admin_actions(u, m, d)
      ]_vars

\* C12 witness: a user who is no administrator has just sent admin:delete:0
\* while the file holds a proxy and the administrator is in the wizard; the
\* callback was denied.
C12_Witness ==
    /\ ev.op = "callback"
    /\ ev.user \notin admin_ids
    /\ ev.a = "delete"
    /\ ev.reply = "denied"
    /\ Len(LoadAll(file)) > 0
    /\ \E a \in admin_ids : fsm[a].state = AddSecret

\* How many times callback.answer() is awaited on the path that ends with
\* reply.  Every branch ends with one answer and a return (toggle answers
\* before it edits the list); an exception leaves the handler before the
\* branch's answer.
AnswersOf(reply) == IF reply = "raised" THEN 0 ELSE 1

\* C29: every admin:* callback of an administrator runs to its end and
\* answers the callback query exactly once.
C29_AnsweredOnce ==
    (ev.op = "callback" /\ ev.user \in admin_ids) => AnswersOf(ev.reply) = 1

(***************************************************************************)
(* Claims about the wizard's handlers as coroutines, checked under         *)
(* SpecWizards.                                                            *)
(***************************************************************************)
\* The pending field key of the context c is a string that is not empty.
PendingText(c, key) ==
    IF Get(c.data, key, PyNone).k = "str"
    THEN Get(c.data, key, PyNone).s # <<>>
    ELSE FALSE

\* The pending port of the context c is an integer in 1..65535.
PendingPort(c) ==
    IF Get(c.data, "port", PyNone).k = "int"
    THEN Get(c.data, "port", PyNone).i \in 1..65535
    ELSE FALSE

\* C26: in every wizard state the pending fields match the step: the name
\* is not empty from step Server on, the server is not empty from step Port
\* on, the port is an integer in 1..65535 in step Secret, and the reference
\* to the anchor message is there.
C26_PendingMatchesStep ==
    \A u \in admin_ids :
        fsm[u].state \in WizardStates =>
            /\ HasPanel(fsm[u])
            /\ fsm[u].state \in {AddServer, AddPort, AddSecret} =>
                   PendingText(fsm[u], "name")
            /\ fsm[u].state \in {AddPort, AddSecret} =>
                   PendingText(fsm[u], "server")
            /\ fsm[u].state = AddSecret => PendingPort(fsm[u])

(***************************************************************************)
(* Claims about wizards completed side by side, checked under SpecAdders.  *)
(***************************************************************************)
\* C25: when two administrators complete their wizards side by side, each
\* completion loads, appends and saves in one step: the file it writes is
\* the list stored at that moment with the new record at its end, so every
\* earlier record and both new ones are stored, each once; no other step
\* writes the file.
C25_CompletionKeepsAll ==
    [][\A s \in TaskIds :
        wizard_resume(s) =>
            IF ev'.reply \in {"added", "panel_added"}
            THEN LoadAll(file') =
                     Append(LoadAll(file),
                            NewProxy(fsm[tasks[s].user].data,
                                     Strip(tasks[s].text)))
            ELSE file' = file
      ]_vars

\* C25 witness: the second administrator's secret arrived when the seed
\* proxy alone was stored, and was handled after the first administrator's
\* proxy had been saved: the three are stored, the seed first.
C25_Witness ==
    /\ ev.op = "wizard" /\ ev.reply \in {"added", "panel_added"}
    /\ ev.user = 2
    /\ ev.seen = LoadAll(SeedFile)
    /\ Len(LoadAll(file)) = 3
    /\ LoadAll(file)[1] = LoadAll(SeedFile)[1]
    /\ LoadAll(file)[2].name = <<"n">>
    /\ LoadAll(file)[3].name = <<"m">>

(***************************************************************************)
(* Claims about the rows of the proxy list, checked under SpecRows.        *)
(***************************************************************************)
\* C22: admin:toggle:i with i within the stored list negates the enabled
\* flag of the record at position i and leaves the length, the order and
\* every other field as they were, so that the same toggle again gives the
\* first list back; with i past the end the file is not written.
C22_ToggleNegatesOne ==
    [][\A s \in TaskIds, idx \in Indices :
        row_press(s, "toggle", idx) =>
            LET old == LoadAll(file)
                new == LoadAll(file')
            IN  IF idx \in 0..(Len(old) - 1)
                THEN /\ file' = SaveAll(new)
                     /\ Len(new) = Len(old)
                     /\ \A i \in 1..Len(old) :
                           new[i] = IF i = idx + 1
                                    THEN [old[i] EXCEPT !.enabled = ~@]
                                    ELSE old[i]
                     /\ LoadAll(CbToggle(Clear, file', users', idx).file) = old
                ELSE file' = file /\ ev'.reply = "bad_index"
      ]_vars

\* C22 witness: the second of two stored proxies, which was off, has just
\* been switched on; the first is as it was.
C22_Witness ==
    /\ ev.op = "callback" /\ ev.a = "toggle" /\ ev.reply = "toggled"
    /\ ev.idx = 1
    /\ LoadAll(file) = [LoadAll(TwoProxies) EXCEPT ![2].enabled = TRUE]

\* C23: admin:delete:i with i within the stored list removes the record at
\* position i: the list is shorter by one and the other records keep their
\* contents and their order; with i past the end the file is not written.
C23_DeleteRemovesOne ==
    [][\A s \in TaskIds, idx \in Indices :
        row_press(s, "delete", idx) =>
            LET old == LoadAll(file)
                new == LoadAll(file')
            IN  IF idx \in 0..(Len(old) - 1)
                THEN /\ file' = SaveAll(new)
                     /\ Len(new) = Len(old) - 1
                     /\ \A i \in 1..Len(new) :
                           new[i] = IF i <= idx THEN old[i] ELSE old[i + 1]
                ELSE file' = file /\ ev'.reply = "bad_index"
      ]_vars

\* C23 witness: the first of two stored proxies has just been deleted; the
\* second is all that is left.
C23_Witness ==
    /\ ev.op = "callback" /\ ev.a = "delete" /\ ev.reply = "deleted"
    /\ ev.idx = 0
    /\ LoadAll(file) = <<LoadAll(TwoProxies)[2]>>

(***************************************************************************)
(* Claims about administrators side by side, checked under SpecOwner.      *)
(***************************************************************************)
\* The step taken ends the wizard of administrator a.
WizardEnded(a) ==
    fsm[a].state \in WizardStates /\ fsm'[a].state \notin WizardStates

\* C11 as stated: an administrator's FSM context is changed by that
\* administrator's own updates only, and a wizard is ended only by its
\* owner completing it, cancelling it or returning to the admin menu.
C11_EndedByCompletionCancelMenu ==
    [][\A a \in admin_ids :
        /\ fsm'[a] # fsm[a] => ev'.user = a
        /\ WizardEnded(a) =>
              \/ ev'.op \in {"add_proxy_secret", "cmd_cancel", "cmd_admin"}
              \/ ev'.op = "callback" /\ ev'.a = "menu"
      ]_vars

\* C11 amended: an administrator's FSM context is changed by handlers of
\* that administrator's own updates only; a wizard is ended only by its
\* owner: the last step completed, /cancel, /admin, one of the menu actions
\* menu, list, broadcast, stats, users, users_search, user and uw, or the
\* state.clear() at the end of a handler of the owner's that was still
\* running when the wizard began: a broadcast.
C11_ChangedByOwnerOnly ==
    [][\A a \in admin_ids :
        /\ fsm'[a] # fsm[a] => ev'.user = a
        /\ WizardEnded(a) =>
              \/ ev'.op \in {"add_proxy_secret", "cmd_cancel", "cmd_admin"}
              \/ /\ ev'.op = "callback"
                 /\ ev'.a \in {"menu", "list", "broadcast", "stats", "users",
                               "users_search", "user", "uw"}
              \/ /\ ev'.op = "send_broadcast"
                 /\ ev'.reply \in {"report", "panel_report"}
      ]_vars

\* C11 witness: administrator 1 has just cancelled a wizard at its port
\* step while administrator 2 is in the middle of another, the name given.
C11_Witness ==
    /\ ev.op = "cmd_cancel" /\ ev.user = 1 /\ ev.was = AddPort
    /\ fsm[1] = Clear
    /\ fsm[2].state = AddServer
    /\ fsm[2].data["name"] = PyStr(<<"n">>)

(***************************************************************************)
(* Claims about the proxy store, checked under SpecStore.                  *)
(***************************************************************************)

\* C13: load_all returns the empty list when the file is absent; of a file
\* that is there it returns one record per element of the array, in the
\* order of the file, with enabled true for every element without an
\* "enabled" field.
C13_LoadAllDefaults ==
    ev.op = "load_all" =>
        IF ~file.exists THEN ev.result = <<>>
        ELSE /\ Len(ev.result) = Len(file.items)
             /\ \A i \in 1..Len(file.items) :
                   /\ ev.result[i].name = file.items[i].name
                   /\ ev.result[i].server = file.items[i].server
                   /\ ev.result[i].secret = file.items[i].secret
                   /\ ev.result[i].port \in {1, 443}
                   /\ (ev.result[i].port = 1) = (file.items[i].port = PyInt(1))
                   /\ ev.result[i].enabled \in BOOLEAN
                   /\ "enabled" \notin DOMAIN file.items[i] =>
                         ev.result[i].enabled = TRUE

\* C13 witness: a file with a byte-order mark was loaded; its first element
\* has no "enabled" field, its second is disabled.
C13_Witness ==
    /\ ev.op = "load_all"
    /\ file.exists
    /\ file.bom
    /\ Len(ev.result) = 2
    /\ "enabled" \notin DOMAIN file.items[1]
    /\ ev.result[1].enabled
    /\ ~ev.result[2].enabled

\* The i-th smallest element of the set of numbers S.
Nth(S, i) == CHOOSE j \in S : Cardinality({k \in S : k <= j}) = i

\* C14: load_enabled returns exactly the records of load_all that are
\* enabled, in the order of the file, and does not write the file.
C14_LoadEnabledFilters ==
    ev.op = "load_enabled" =>
        LET all == LoadAll(file)
            on == {j \in 1..Len(all) : all[j].enabled}
        IN  /\ Len(ev.result) = Cardinality(on)
            /\ \A i \in 1..Len(ev.result) : ev.result[i] = all[Nth(on, i)]
            /\ file = ev.before

\* C14 witness: of a disabled record followed by an enabled one, only the
\* second was returned.
C14_Witness ==
    /\ ev.op = "load_enabled"
    /\ Len(LoadAll(file)) = 2
    /\ ~LoadAll(file)[1].enabled
    /\ Len(ev.result) = 1
    /\ ev.result[1] = LoadAll(file)[2]

\* C15: after save_all(load_all()) load_all returns the list read before
\* the save, field for field and in the same order, with or without a
\* byte-order mark in the file read; saving what is then loaded leaves the
\* file as it is.
C15_RoundTrip ==
    ev.op = "save_all" =>
        /\ Len(LoadAll(file)) = Len(ev.loaded)
        /\ \A i \in 1..Len(ev.loaded) :
              \A key \in {"name", "server", "port", "secret", "enabled"} :
                  LoadAll(file)[i][key] = ev.loaded[i][key]
        /\ SaveAll(LoadAll(file)) = file

\* C15 witness: the file read had a byte-order mark, a port written as a
\* string and a disabled record; it was rewritten.
C15_Witness ==
    /\ ev.op = "save_all"
    /\ ev.before.exists
    /\ ev.before.bom
    /\ ev.before # file
    /\ \E i \in 1..Len(ev.before.items) : ev.before.items[i].port.k = "str"
    /\ \E i \in 1..Len(ev.loaded) : ~ev.loaded[i].enabled

(***************************************************************************)
(* Claims about the rate limiter, checked under SpecRL.                    *)
(***************************************************************************)

\* C1: two consecutive accepted calls of a user are at least the cooldown
\* apart; a rejected call returns a strictly positive retry_after and leaves
\* the user's recorded time as it was.
C1_AcceptedApartRejectedInert ==
    ev.op = "allowed" =>
        /\ (ev.ok /\ ev.prev_ok # NoTime) => now - ev.prev_ok >= CooldownTicks
        /\ ~ev.ok =>
              /\ ev.retry_after > 0
              /\ ev.prev # NoTime
              /\ PrevOf(last_called, ev.user) = ev.prev

\* C1 witness: a user's second accepted call, made exactly when the cooldown
\* ends; the time recorded before it is that of the user's first accepted
\* call.
C1_Witness ==
    /\ ev.op = "allowed"
    /\ ev.ok
    /\ ev.prev_ok # NoTime
    /\ now - ev.prev_ok = CooldownTicks
    /\ ev.prev = ev.prev_ok

\* C2: the first call for a user without an entry returns (True, 0) and
\* records the call time, whatever other users called before.
C2_FirstCallAccepted ==
    (ev.op = "allowed" /\ ev.prev = NoTime) =>
        /\ ev.ok
        /\ ev.retry_after = 0
        /\ PrevOf(last_called, ev.user) = now

\* C2 witness: a first call made while another user's entry is in its cooldown.
C2_Witness ==
    /\ ev.op = "allowed"
    /\ ev.prev = NoTime
    /\ \E v \in DOMAIN last_called :
          v # ev.user /\ now - last_called[v] < CooldownTicks

\* The entry of user u alone, as a dict.
EntryOf(d, u) == [x \in (DOMAIN d) \cap {u} |-> d[x]]

\* C30: the limiter's entries are independent per user.  A call allowed(u)
\* is decided by u's entry alone and changes no entry but u's, so whatever
\* allowed(v) returns for another user v, then or later, is the same with
\* and without the call; and no step removes an entry.
C30_EntriesIndependent ==
    [][/\ DOMAIN last_called \subseteq DOMAIN last_called'
       /\ \A u \in UserIds :
              Allowed(u) =>
                  /\ ev'.ok = AllowedResult(EntryOf(last_called, u), u, now)[1]
                  /\ ev'.retry_after =
                         AllowedResult(EntryOf(last_called, u), u, now)[2]
                  /\ \A v \in UserIds \ {u} :
                         /\ PrevOf(last_called', v) = PrevOf(last_called, v)
                         /\ \A t \in now..MaxTime :
                                /\ AllowedResult(last_called', v, t)[1] =
                                       AllowedResult(last_called, v, t)[1]
                                /\ AllowedResult(last_called', v, t)[2] =
                                       AllowedResult(last_called, v, t)[2]
      ]_vars

\* C30 witness: an accepted call that overwrites the caller's entry while
\* another user's entry is in its cooldown and stays as it was.
C30_Witness ==
    /\ ev.op = "allowed"
    /\ ev.ok
    /\ ev.prev # NoTime
    /\ last_called[ev.user] = now
    /\ \E v \in DOMAIN last_called :
          /\ v # ev.user
          /\ last_called[v] < now
          /\ now - last_called[v] < CooldownTicks

\* C3: a rejected call returns retry_after = ceil(cooldown - elapsed).
C3_RetryAfterIsCeil ==
    (ev.op = "allowed" /\ ~ev.ok) =>
        ev.retry_after = CeilOfTicks(CooldownTicks - (now - ev.prev))

====
